---- MODULE Spec2Model ----
(***************************************************************************)
(* Model of the assistant backend of my_prp_app:                           *)
(*   - backend/src/assistant/orchestrator.py : AssistantOrchestrator and   *)
(*     its agents (the staged pipeline over a shared state dict);          *)
(*   - backend/src/assistant/service.py, graph.py : AssistantService.chat  *)
(*     and the AssistantGraph nodes it runs;                               *)
(*   - backend/src/assistant/tools.py : the signal extractors the agents   *)
(*     call.                                                               *)
(*                                                                         *)
(* Conventions.                                                            *)
(*   A Python dict is a TLA+ function whose DOMAIN is the set of keys      *)
(*   present; dict.get(k, d) is Get(s, k, d).                              *)
(*   A message is the set of the code's keyword phrases that occur in its  *)
(*   lower-cased text (`k in lowered` is `k \in message`).                 *)
(*   A text is a sequence of lines; a line is a tuple whose first element  *)
(*   is a string naming the line's template.                               *)
(*   Percentages and scores with one decimal are integers in tenths.       *)
(***************************************************************************)
EXTENDS Integers, Sequences, FiniteSets, TLC

\* ------------------------------------------------------------------ helpers

Get(s, k, d) == IF k \in DOMAIN s THEN s[k] ELSE d

Put(s, k, v) == (k :> v) @@ s

Min2(a, b) == IF a <= b THEN a ELSE b

Max2(a, b) == IF a >= b THEN a ELSE b

IsPrefix(a, b) == Len(a) <= Len(b) /\ SubSeq(b, 1, Len(a)) = a

Take(s, n) == SubSeq(s, 1, Min2(n, Len(s)))

Range(s) == {s[i] : i \in 1..Len(s)}

\* n / d rounded to the nearest integer, for n >= 0 and d = 3 (no tie exists)
RoundDiv3(n) == (n + 1) \div 3

\* ------------------------------------------------------------------ domains

Intents ==
    {"expense_question", "budget_question", "investment_question", "education_request",
     "behaviour_analysis", "emotional_spending", "forecasting", "general"}

Runs == {"r1", "r2"}

Users == {"u1", "u2"}

SessionIds == {"s1", "s2"}

\* ------------------------------------------------------------------ tools.py

Has(message, phrases) == \E k \in phrases : k \in message

detect_dissatisfaction(message) ==
    Has(message, {"boring", "bore", "same thing", "repeat", "repetitive", "not helpful",
                  "didn't help", "did not help", "you always", "stop repeating",
                  "bad answer", "wrong answer", "not satisfied", "useless", "annoying",
                  "frustrated"})

infer_user_tone(message) ==
    IF message = {} THEN "neutral"
    ELSE IF Has(message, {"urgent", "asap", "quick", "immediately", "now"}) THEN "urgent"
    ELSE IF Has(message, {"worried", "stress", "anxious", "overwhelmed"}) THEN "stressed"
    ELSE IF Has(message, {"hey", "buddy", "bro", "chill", "casual"}) THEN "casual"
    ELSE IF Has(message, {"?", "explain", "why", "how", "what"}) THEN "curious"
    ELSE "neutral"

\* The phrase branch of extract_time_range; a run of the pipeline reads only
\* the label and the explicit flag of the range (the dates go to the
\* transaction read).  "date" stands for one explicit date token in the text.
\* extract_time_range, the "last <n> days|weeks|months" branch: now - timedelta(days)
\* is computed outside any try and raises OverflowError when the day count
\* reaches before year 1
TimeRangeOverflows(message) == "last 999999 days" \in message

extract_time_range(message) ==
    LET phrase ==
            IF "today" \in message THEN "today"
            ELSE IF "yesterday" \in message THEN "yesterday"
            ELSE IF "this week" \in message THEN "this_week"
            ELSE IF Has(message, {"last week", "previous week"}) THEN "last_week"
            ELSE IF Has(message, {"last two week", "last 2 week", "past 2 week"}) THEN "last_2_weeks"
            ELSE IF "this month" \in message THEN "this_month"
            ELSE IF Has(message, {"last month", "previous month"}) THEN "last_month"
            ELSE IF "last 7 days" \in message THEN "last_7_days"
            ELSE "last_45_days"
    IN  IF "date" \in message
        THEN [explicit |-> TRUE, label |-> "single_date"]
        ELSE [explicit |-> phrase # "last_45_days", label |-> phrase]

FocusRules ==
    << [name |-> "cashflow", keys |-> {"cash flow", "cashflow", "income vs expense"}],
       [name |-> "spending_trend", keys |-> {"trend", "month over month", "pattern"}],
       [name |-> "category_breakdown", keys |-> {"category", "breakdown", "where i spend", "spent most"}],
       [name |-> "anomalies", keys |-> {"anomaly", "unusual", "outlier", "suspicious", "unexpected"}],
       [name |-> "velocity_7d", keys |-> {"last 7 days", "weekly", "this week", "velocity"}],
       [name |-> "savings_actions", keys |-> {"save", "reduce", "cut", "optimize", "improve"}],
       [name |-> "goal_progress", keys |-> {"goal", "target", "progress"}],
       [name |-> "education", keys |-> {"what is", "meaning", "explain"}],
       [name |-> "transaction_summary", keys |-> {"transaction", "transactions", "summary", "history", "debit", "credit"}] >>

MatchedFocus(message) ==
    LET hit(rule) == Has(message, rule.keys)
        names == [i \in 1..Len(FocusRules) |-> FocusRules[i].name]
        RECURSIVE Pick(_)
        Pick(i) == IF i > Len(FocusRules) THEN <<>>
                   ELSE (IF hit(FocusRules[i]) THEN <<names[i]>> ELSE <<>>) \o Pick(i + 1)
    IN  Pick(1)

finance_query_focus(message) ==
    LET matched == MatchedFocus(message)
        focus0 == IF matched = <<>> THEN <<"savings_actions">> ELSE matched
        time_range == extract_time_range(message)
        focus1 == IF time_range.explicit /\ "transaction_summary" \notin Range(focus0)
                  THEN Append(focus0, "transaction_summary") ELSE focus0
    IN  [focus |-> Take(focus1, 5),
         explicit_cashflow_request |->
             Has(message, {"net cashflow", "cashflow", "cash flow", "income vs expense"}),
         time_range |-> time_range]

\* ------------------------------------------------------------------ orchestrator.py: agents
\* Every agent is an operator from the state dict (and what it awaits) to the
\* state dict it returns.

Marker(name, arg) == [name |-> name, arg |-> arg]

\* a faulty _trace that starts a fresh list instead of copying the old one
_trace_fresh_list(state, marker) ==
    Put(state, "agent_trace", <<marker>>)

\* BaseAgent._trace: copy the list, append the marker, store it back
_trace(state, marker) ==
    Put(state, "agent_trace", Append(Get(state, "agent_trace", <<>>), marker))

\* The completions the language model can give to the intent prompt: the call
\* raises, the text holds no JSON object, or it is {"intent": candidate}.
IntentCompletions ==
    {[kind |-> "raise"], [kind |-> "malformed"]}
        \cup {[kind |-> "json", intent |-> c] : c \in Intents \cup {"other"}}

KeywordIntent(message) ==
    IF Has(message, {"spend", "expense", "where did i spend", "transaction"}) THEN "expense_question"
    ELSE IF Has(message, {"budget", "limit", "overspend", "80/20"}) THEN "budget_question"
    ELSE IF Has(message, {"invest", "allocation", "portfolio", "risk profile"}) THEN "investment_question"
    ELSE IF Has(message, {"learn", "teach", "what is", "explain"}) THEN "education_request"
    ELSE IF Has(message, {"habit", "discipline", "behavior", "behaviour"}) THEN "behaviour_analysis"
    ELSE IF Has(message, {"stress", "emotional", "impulse", "panic"}) THEN "emotional_spending"
    ELSE IF Has(message, {"forecast", "next month", "end of month", "projection"}) THEN "forecasting"
    ELSE "general"

ClassifyIntent(message, completion) ==
    IF completion.kind = "json"
    THEN IF completion.intent \in Intents THEN completion.intent ELSE "general"
    ELSE KeywordIntent(message)

IntentDetectionAgent(state, completion) ==
    LET message == Get(state, "message", {})
        focus == finance_query_focus(message)
        intent == ClassifyIntent(message, completion)
        s1 == Put(state, "intent", intent)
        s2 == Put(s1, "user_tone", infer_user_tone(message))
        s3 == Put(s2, "query_focus", focus)
        s4 == Put(s3, "dissatisfied", detect_dissatisfaction(message))
        s5 == Put(s4, "show_net_cashflow",
                  focus.explicit_cashflow_request \/ focus.time_range.label = "this_month")
    IN  _trace(s5, Marker("intent_detection", <<intent>>))

\* UserStateAgent._derive_sentiment_history over the dialogue window
StressedTurns(dialogue) ==
    Cardinality({i \in 1..Len(dialogue) :
        dialogue[i].role = "user"
        /\ Has(dialogue[i].content, {"stress", "worried", "anxious", "panic", "overwhelmed"})})

_derive_risk_profile(profile, analytics, dialogue) ==
    IF Len(analytics.anomalies) >= 3 \/ StressedTurns(dialogue) >= 2 THEN "conservative"
    ELSE IF profile.goals # <<>> /\ Len(analytics.anomalies) <= 1 THEN "balanced"
    ELSE "moderate"

\* savings rate in tenths of a percent; 0 when there is no credit
SavingsRate(credit, debit) ==
    IF credit > 0 THEN ((credit - debit) * 1000) \div credit ELSE 0

LifecycleStage(credit, rate) ==
    IF credit > 0 /\ rate > 350 THEN "stability"
    ELSE IF credit > 0 /\ rate > 200 THEN "growth"
    ELSE "starter"

Citations(sem_hits) ==
    [i \in 1..Min2(4, Len(sem_hits)) |-> [source |-> sem_hits[i].source, snippet |-> sem_hits[i].text]]

\* The keys user_style_preferences and response_style and the user_state
\* fields habits, sentiment_history and monthly_trend are written here too;
\* no agent of the pipeline reads them, and they are left out.
UserStateAgent(state, snapshot, analytics, profile, dialogue, sem_hits) ==
    LET credit == snapshot.total_credit
        debit == snapshot.total_debit
        rate == SavingsRate(credit, debit)
        s1 == Put(state, "financial_snapshot", snapshot)
        s2 == Put(s1, "analytics_report", analytics)
        s3 == Put(s2, "user_profile", profile)
        s4 == Put(s3, "recent_dialogue", dialogue)
        s5 == Put(s4, "citations", Citations(sem_hits))
        s6 == Put(s5, "user_state",
                  [cash_flow |-> [income |-> credit, expense |-> debit, net |-> credit - debit],
                   savings_rate_pct |-> rate,
                   goals |-> profile.goals,
                   risk_profile |-> _derive_risk_profile(profile, analytics, dialogue),
                   anomalies |-> Take(analytics.anomalies, 5),
                   lifecycle_stage |-> LifecycleStage(credit, rate)])
    IN  _trace(s6, Marker("user_state", <<>>))

DefaultPlan ==
    <<"ingestion", "categorization", "transaction_query", "expense", "budget", "forecasting",
      "behaviour", "sentiment", "investment", "learning", "financial_health", "synthesizer">>

\* a faulty planner whose emotional_spending plan scores the financial health
\* before the behaviour, sentiment and budget stages have reported
PlanForHealthFirst(intent) ==
    IF intent = "education_request" THEN <<"learning", "financial_health", "synthesizer">>
    ELSE IF intent = "emotional_spending"
    THEN <<"transaction_query", "expense", "financial_health", "behaviour", "sentiment",
           "budget", "learning", "synthesizer">>
    ELSE DefaultPlan

PlanFor(intent) ==
    IF intent = "education_request" THEN <<"learning", "financial_health", "synthesizer">>
    ELSE IF intent = "emotional_spending"
    THEN <<"transaction_query", "expense", "behaviour", "sentiment", "budget", "learning",
           "financial_health", "synthesizer">>
    ELSE DefaultPlan

\* a planner that asks investment questions for the horizon alone
MissingFieldsHorizonAlone(intent, user_state, message) ==
    (IF intent \in {"budget_question", "forecasting"} /\ user_state.goals = <<>>
        THEN <<"goal">> ELSE <<>>)
    \o (IF intent \in {"budget_question", "forecasting"} /\ user_state.cash_flow.income <= 0
        THEN <<"income">> ELSE <<>>)
    \o (IF intent = "investment_question" /\ "horizon" \notin message
        THEN <<"investment_horizon">> ELSE <<>>)

MissingFields(intent, user_state, message) ==
    (IF intent \in {"budget_question", "investment_question", "forecasting"} /\ user_state.goals = <<>>
        THEN <<"goal">> ELSE <<>>)
    \o (IF intent \in {"budget_question", "forecasting"} /\ user_state.cash_flow.income <= 0
        THEN <<"income">> ELSE <<>>)
    \o (IF intent = "investment_question" /\ "horizon" \notin message
        THEN <<"investment_horizon">> ELSE <<>>)

\* a faulty review rule that asks for more than three anomalies
NeedsReviewAboveThree(intent, user_state) ==
    Len(user_state.anomalies) > 3 \/ intent = "investment_question"

NeedsReview(intent, user_state) ==
    Len(user_state.anomalies) >= 3 \/ intent = "investment_question"

ReviewReason(intent, user_state) ==
    IF intent = "investment_question" THEN "investment_readiness_confirmation"
    ELSE IF Len(user_state.anomalies) >= 3 THEN "large_anomalies"
    ELSE ""

EmptyUserState ==
    [cash_flow |-> [income |-> 0, expense |-> 0, net |-> 0], savings_rate_pct |-> 0,
     goals |-> <<>>, risk_profile |-> "moderate", anomalies |-> <<>>,
     lifecycle_stage |-> "starter"]

PlannerAgent(state) ==
    LET intent == Get(state, "intent", "general")
        user_state == Get(state, "user_state", EmptyUserState)
        message == Get(state, "message", {})
        plan == PlanFor(intent)
        missing_fields == MissingFields(intent, user_state, message)
        s1 == Put(state, "plan", plan)
        s2 == Put(s1, "needs_clarification", missing_fields # <<>>)
        s3 == Put(s2, "missing_fields", missing_fields)
        s4 == Put(s3, "needs_human_review", NeedsReview(intent, user_state))
        s5 == Put(s4, "human_review_reason", ReviewReason(intent, user_state))
    IN  _trace(s5, Marker("planner", plan))

Questions == {"goal", "income", "investment_horizon"}

ClarificationAgent(state) ==
    LET missing == Get(state, "missing_fields", <<>>)
        prompts == SelectSeq(missing, LAMBDA item : item \in Questions)
    IN  _trace(Put(state, "clarification_questions", prompts), Marker("clarification", <<>>))

\* ------------------------------------------------------------------ orchestrator.py: plan stages

IngestionAgent(state) ==
    LET message == Get(state, "message", {})
        requested == Has(message, {"csv", "statement", "upload", "ocr", "sync bank"})
        report == IF requested
                  THEN [triggered |-> TRUE, mode |-> "user_requested", status |-> "pending_input"]
                  ELSE [triggered |-> FALSE, mode |-> "none", status |-> "not_requested"]
    IN  _trace(Put(state, "ingestion_report", report), Marker("ingestion", <<>>))

EmptySnapshot ==
    [window_days |-> 45, transaction_count |-> 0, total_debit |-> 0, total_credit |-> 0,
     net_cashflow |-> 0, top_categories |-> <<>>]

CategorizationAgent(state) ==
    LET snapshot == Get(state, "financial_snapshot", EmptySnapshot)
        top_categories == snapshot.top_categories
        recurring == SelectSeq(top_categories,
                               LAMBDA c : c \in {"subscriptions", "bills", "utilities"})
    IN  _trace(Put(state, "categorization_report",
                   [top_categories |-> Take(top_categories, 5),
                    possible_recurring |-> Take(recurring, 3),
                    merchant_detection |-> "heuristic"]),
               Marker("categorization", <<>>))

\* TransactionQueryAgent: whether the stage awaits tools.transaction_summary
NeedsTx(state) ==
    LET query_focus == Get(state, "query_focus", [focus |-> <<>>, time_range |-> [explicit |-> FALSE]])
        intent == Get(state, "intent", "general")
        message == Get(state, "message", {})
    IN  \/ "transaction_summary" \in Range(query_focus.focus)
        \/ query_focus.time_range.explicit
        \/ /\ intent = "expense_question"
           /\ Has(message, {"transaction", "history", "debit", "credit", "spent"})

\* report is {} (the empty function) when no summary was asked for
TransactionQueryAgent(state, report) ==
    _trace(Put(state, "transaction_report", report),
           Marker("transaction_query", <<Get(report, "transaction_count", 0)>>))

EmptyAnalytics ==
    [period_change_pct |-> 0, anomalies |-> <<>>, spend_velocity_7d |-> [change_pct |-> 0]]

\* a faulty expense stage that also rewrites a key that is not its own
ExpenseAgentRewritingLanguage(state) ==
    LET analytics == Get(state, "analytics_report", EmptyAnalytics)
        period_change == analytics.period_change_pct
        direction == IF period_change > 0 THEN "up" ELSE IF period_change < 0 THEN "down" ELSE "flat"
    IN  _trace(Put(Put(state, "language", "en"), "expense_report",
                   [period_change_pct |-> period_change,
                    trend_direction |-> direction,
                    anomalies |-> Take(analytics.anomalies, 5),
                    spend_velocity_7d |-> analytics.spend_velocity_7d]),
               Marker("expense", <<>>))

ExpenseAgent(state) ==
    LET analytics == Get(state, "analytics_report", EmptyAnalytics)
        period_change == analytics.period_change_pct
        direction == IF period_change > 0 THEN "up" ELSE IF period_change < 0 THEN "down" ELSE "flat"
    IN  _trace(Put(state, "expense_report",
                   [period_change_pct |-> period_change,
                    trend_direction |-> direction,
                    anomalies |-> Take(analytics.anomalies, 5),
                    spend_velocity_7d |-> analytics.spend_velocity_7d]),
               Marker("expense", <<>>))

BudgetAgent(state) ==
    LET cash == Get(state, "user_state", EmptyUserState).cash_flow
        income == cash.income
        expense == cash.expense
        overspending == IF income > 0 THEN expense * 10 > income * 8 ELSE FALSE
    IN  _trace(Put(state, "budget_report",
                   [model |-> "80/20",
                    income_estimate |-> income,
                    essential_spend_limit |-> (income * 8) \div 10,
                    savings_target |-> (income * 2) \div 10,
                    current_spend |-> expense,
                    overspending_detected |-> overspending,
                    adaptive_adjustment_hint |->
                        IF overspending THEN "tighten variable categories by 10%" ELSE "on_track"]),
               Marker("budget", <<>>))

\* day is datetime.utcnow().day, read by the stage when it runs
ForecastingAgent(state, day) ==
    LET snapshot == Get(state, "financial_snapshot", EmptySnapshot)
        days == IF snapshot.window_days = 0 THEN 45 ELSE snapshot.window_days
        days_left == Max2(1, 30 - day)
        projected_outflow == (snapshot.total_debit * days_left) \div Max2(1, days)
        projected_inflow == (snapshot.total_credit * days_left) \div Max2(1, days)
    IN  _trace(Put(state, "forecast_report",
                   [days_left_in_month |-> days_left,
                    projected_inflow |-> projected_inflow,
                    projected_outflow |-> projected_outflow,
                    projected_net |-> projected_inflow - projected_outflow,
                    confidence |-> "medium"]),
               Marker("forecasting", <<>>))

EmptyExpense == [anomalies |-> <<>>, spend_velocity_7d |-> [change_pct |-> 0]]

BehaviourAgent(state) ==
    LET expense == Get(state, "expense_report", EmptyExpense)
        velocity == expense.spend_velocity_7d.change_pct
        impulse == Min2(1000, Max2(0, Len(expense.anomalies) * 180 + Max2(0, velocity)))
        discipline == Max2(0, 1000 - impulse)
    IN  _trace(Put(state, "behaviour_report",
                   [impulse_spending_score |-> impulse,
                    discipline_score |-> discipline,
                    pattern_summary |-> IF impulse >= 550 THEN "spike-driven" ELSE "stable"]),
               Marker("behaviour", <<>>))

SentimentAgent(state) ==
    LET message == Get(state, "message", {})
        tone == Get(state, "user_tone", "neutral")
        emotional == Has(message, {"stress", "panic", "sad", "frustrated", "overwhelmed", "impulse"})
        stressed == tone \in {"stressed", "urgent"} \/ emotional
        mood_label == IF stressed THEN "support_needed"
                      ELSE IF tone = "curious" THEN "curious"
                      ELSE IF tone = "casual" THEN "casual"
                      ELSE "calm"
    IN  _trace(Put(state, "sentiment_report",
                   [emotional_spending_flag |-> emotional,
                    stress_spending_flag |-> stressed,
                    confidence_score |-> IF stressed THEN 75 ELSE 35,
                    mood_label |-> mood_label]),
               Marker("sentiment", <<>>))

Readiness(net) ==
    IF net <= 0 THEN "not_ready" ELSE IF net < 5000 THEN "emergency_fund_first" ELSE "ready_to_explore"

InvestmentAgent(state) ==
    LET user_state == Get(state, "user_state", EmptyUserState)
        intent == Get(state, "intent", "general")
        mood == Get(Get(state, "sentiment_report", <<>>), "mood_label", "calm")
        net == user_state.cash_flow.net
        risk == user_state.risk_profile
        readiness == Readiness(net)
        reason == IF readiness = "emergency_fund_first" THEN "surplus_exists_but_buffer_thin"
                  ELSE IF readiness = "ready_to_explore" THEN "positive_surplus_and_stability"
                  ELSE "negative_or_zero_surplus"
        hook == IF intent # "investment_question" THEN "goal_timeline"
                ELSE IF mood = "support_needed" THEN "low_risk_simple_steps"
                ELSE "sample_roadmap"
    IN  _trace(Put(state, "investment_report",
                   [investable_surplus |-> Max2(0, net \div 2),
                    risk_score |-> risk,
                    readiness |-> readiness,
                    readiness_reason |-> reason,
                    illustrative_allocation |->
                        IF risk = "conservative" THEN "70/20/10" ELSE "60/30/10",
                    engagement_hook |-> hook,
                    advice_disclaimer |-> "informational_only_not_financial_advice"]),
               Marker("investment", <<>>))

LearningAgent(state) ==
    LET intent == Get(state, "intent", "general")
    IN  _trace(Put(state, "learning_report",
                   [tips |-> <<IF intent \in Intents THEN intent ELSE "general">>,
                    learning_path |-> <<"Foundations", "Budgeting", "Risk", "Automation">>]),
               Marker("learning", <<>>))

FinancialHealthAgent(state) ==
    LET user_state == Get(state, "user_state", EmptyUserState)
        behaviour == Get(state, "behaviour_report", <<>>)
        budget == Get(state, "budget_report", <<>>)
        investment == Get(state, "investment_report", <<>>)
        sentiment == Get(state, "sentiment_report", <<>>)
        savings_rate == user_state.savings_rate_pct
        reported == Get(behaviour, "discipline_score", 500)
        \* float(x or 50.0): a reported score of 0.0 is falsy and becomes 50.0
        discipline == IF reported = 0 THEN 500 ELSE reported
        overspending == Get(budget, "overspending_detected", FALSE)
        emotional == Get(sentiment, "emotional_spending_flag", FALSE)
        readiness == Get(investment, "readiness", "not_ready")
        savings_score == Max2(0, Min2(1000, savings_rate * 2))
        stability_score == Max2(0, Min2(1000, discipline - (IF overspending THEN 200 ELSE 0)))
        risk_score == (IF readiness = "ready_to_explore" THEN 650 ELSE 400)
                      - (IF emotional THEN 150 ELSE 0)
        total == savings_score + stability_score + risk_score
        band == IF total >= 2100 THEN "good" ELSE IF total >= 1350 THEN "watch" ELSE "needs_attention"
    IN  _trace(Put(state, "financial_health_report",
                   [savings_score |-> savings_score,
                    stability_score |-> stability_score,
                    risk_score |-> risk_score,
                    overall_health_score |-> RoundDiv3(total),
                    health_band |-> band]),
               Marker("financial_health", <<>>))

\* ------------------------------------------------------------------ orchestrator.py: synthesizer

Blank == <<"">>

IsBlank(line) == line[1] = ""

\* a transaction description that spells out "net cashflow"
NetDescriptions == {"net cashflow refund"}

\* re `\bnet cashflow\b` or `\bprojected_net\b` matches somewhere in the line
\* (the spelling "net cash flow" is matched by neither)
MentionsNet(line) ==
    \/ line[1] = "net_cashflow"
    \/ line[1] = "llm" /\ line[2] \in {"net_cashflow", "projected_net"}
    \/ line[1] = "row" /\ line[2] \in NetDescriptions

\* str.strip() of a text: leading and trailing empty lines go
RECURSIVE Strip(_)
Strip(text) ==
    IF text = <<>> THEN <<>>
    ELSE IF IsBlank(Head(text)) THEN Strip(Tail(text))
    ELSE IF IsBlank(text[Len(text)]) THEN Strip(SubSeq(text, 1, Len(text) - 1))
    ELSE text

\* re.sub(r"\n{3,}", "\n\n"): a run of two or more empty lines becomes one
RECURSIVE CollapseBlank(_)
CollapseBlank(text) ==
    IF Len(text) < 2 THEN text
    ELSE IF IsBlank(text[1]) /\ IsBlank(text[2]) THEN CollapseBlank(Tail(text))
    ELSE <<Head(text)>> \o CollapseBlank(Tail(text))

\* the two re.sub calls that empty every line mentioning net cashflow
SuppressNet(text) ==
    Strip(CollapseBlank([i \in 1..Len(text) |-> IF MentionsNet(text[i]) THEN Blank ELSE text[i]]))

\* re.sub of INR and Rs. by the rupee sign
ReplaceCurrency(text) ==
    [i \in 1..Len(text) |->
        IF text[i][1] = "llm" /\ text[i][2] \in {"amount_inr", "amount_rs"}
        THEN <<"llm", "amount_rupee">> ELSE text[i]]

\* The texts the language model can return to the synthesizer prompt
LlmLine(kind) == <<"llm", kind>>

LlmTexts ==
    { <<>>,
      <<LlmLine("answer")>>,
      <<LlmLine("net_cashflow")>>,
      <<LlmLine("answer"), LlmLine("net_cashflow"), LlmLine("projected_net"), LlmLine("amount_inr")>>,
      <<Blank, LlmLine("answer"), Blank>>,
      <<LlmLine("answer"), LlmLine("net_cash_flow")>> }

SynthCompletions ==
    {[kind |-> "raise"]} \cup {[kind |-> "text", text |-> t] : t \in LlmTexts}

EmptyTx ==
    [transaction_count |-> 0, start_date |-> "", end_date_exclusive |-> "", total_debit |-> 0,
     total_credit |-> 0, net_cashflow |-> 0, transactions |-> <<>>]

_format_transaction_table(tx) ==
    LET rows == Take(Get(tx, "transactions", <<>>), 5)
    IN  IF rows = <<>> THEN << <<"no_transactions">> >>
        ELSE << <<"table_header">>, <<"table_rule">> >>
             \o [i \in 1..Len(rows) |->
                    <<"row", rows[i].description, rows[i].category, rows[i].transaction_type,
                      rows[i].amount>>]

\* a faulty fallback that quotes the question back to the user
_fallback_summary_quoting(state) ==
    << <<"you_asked", Get(state, "message", {"?"})>>,
       <<"health", Get(Get(state, "financial_health_report", <<>>), "overall_health_score", 0),
         Get(Get(state, "financial_health_report", <<>>), "health_band", "watch")>> >>

_fallback_summary(state) ==
    LET intent == Get(state, "intent", "general")
        sentiment == Get(state, "sentiment_report", <<>>)
        investment == Get(state, "investment_report", <<>>)
        health == Get(state, "financial_health_report", <<>>)
        budget == Get(state, "budget_report", <<>>)
        forecast == Get(state, "forecast_report", <<>>)
        tx == Get(state, "transaction_report", <<>>)
        mood == Get(sentiment, "mood_label", "calm")
        intro == <<"intro", IF mood = "curious" THEN "great_question"
                            ELSE IF mood = "support_needed" THEN "doing_better"
                            ELSE "right_track">>
        tx_count == Get(tx, "transaction_count", 0)
    IN  IF intent = "investment_question"
        THEN << intro,
                <<"readiness", Get(investment, "readiness", "unknown"),
                  Get(investment, "readiness_reason", "context")>>,
                <<"approach", Get(investment, "illustrative_allocation", "balanced staged allocation")>>,
                <<"next_action_horizon">>,
                <<"hook", Get(investment, "engagement_hook", "beginner_plan")>> >>
        ELSE IF tx_count > 0
        THEN << intro,
                <<"transactions_found", tx_count, Get(tx, "start_date", ""),
                  Get(tx, "end_date_exclusive", "")>>,
                <<"debit_credit", Get(tx, "total_debit", 0), Get(tx, "total_credit", 0)>> >>
             \o (IF Get(state, "show_net_cashflow", FALSE)
                 THEN << <<"net_cashflow", Get(tx, "net_cashflow", 0)>> >> ELSE <<>>)
             \o << <<"recent_transactions">> >>
             \o _format_transaction_table(tx)
             \o << <<"breakdown_question">> >>
        ELSE << intro,
                <<"health", Get(health, "overall_health_score", 0), Get(health, "health_band", "watch")>>,
                <<"budget", Get(budget, "overspending_detected", FALSE)>>,
                <<"forecast", Get(forecast, "projected_inflow", 0), Get(forecast, "projected_outflow", 0)>>,
                <<"next_action_cap">>,
                <<"plan_question">> >>

SynthesizerAgent(state, completion) ==
    LET text0 == IF completion.kind = "text" THEN Strip(completion.text)
                 ELSE _fallback_summary(state)
        text1 == IF Get(state, "show_net_cashflow", FALSE) THEN text0 ELSE SuppressNet(text0)
    IN  _trace(Put(state, "synthesized_response", ReplaceCurrency(text1)),
               Marker("synthesizer", <<>>))

\* ------------------------------------------------------------------ orchestrator.py: review, memory, final

ReviewNote(reason) ==
    IF reason = "investment_readiness_confirmation" THEN <<"review_needed">>
    ELSE <<"review_suggested_anomalies">>

\* a faulty review stage that writes its trace entry whether or not a review
\* was asked for
HumanReviewAgentTracingAlways(state) ==
    LET reason == Get(state, "human_review_reason", "policy_guardrail")
    IN  IF ~Get(state, "needs_human_review", FALSE)
        THEN _trace(state, Marker("human_review", <<reason>>))
        ELSE _trace(Put(state, "review_note", ReviewNote(reason)),
                    Marker("human_review", <<reason>>))

HumanReviewAgent(state) ==
    IF ~Get(state, "needs_human_review", FALSE) THEN state
    ELSE LET reason == Get(state, "human_review_reason", "policy_guardrail")
         IN  _trace(Put(state, "review_note", ReviewNote(reason)),
                    Marker("human_review", <<reason>>))

\* a faulty write that keeps one document per user, replacing the older one
insert_one_replacing(mems, doc) ==
    SelectSeq(mems, LAMBDA m : m.user_id # doc.user_id) \o <<doc>>

\* db.assistant_memories.insert_one
insert_one(mems, doc) == Append(mems, doc)

\* the document MemoryUpdateAgent inserts; id stands for the fresh uuid
MemoryPayload(state, id) ==
    LET health == Get(state, "financial_health_report", <<>>)
        sentiment == Get(state, "sentiment_report", <<>>)
        investment == Get(state, "investment_report", <<>>)
    IN  [id |-> id,
         user_id |-> state["user_id"],
         text |-> <<"memory", Get(health, "overall_health_score", 0), Get(health, "health_band", "watch"),
                    Get(sentiment, "emotional_spending_flag", FALSE),
                    Get(investment, "readiness", "unknown")>>,
         source |-> "assistant_orchestrator"]

ClarificationText(questions) ==
    << <<"before_i_proceed">> >> \o [i \in 1..Len(questions) |-> <<"question", questions[i]>>]

\* a faulty finalizer that annotates every flagged response, the clarification
\* request included
FinalResponseAgentNotingAlways(state) ==
    LET text == IF Get(state, "needs_clarification", FALSE)
                THEN ClarificationText(Get(state, "clarification_questions", <<>>))
                ELSE Strip(Get(state, "synthesized_response", <<>>))
        note == ReviewNote(Get(state, "human_review_reason", "policy_guardrail"))
        response == IF Get(state, "needs_human_review", FALSE) \/ "review_note" \in DOMAIN state
                    THEN text \o <<Blank, note, <<"reply_approve">> >>
                    ELSE text
    IN  _trace(Put(state, "response", response), Marker("final_response", <<>>))

FinalResponseAgent(state) ==
    LET response ==
            IF Get(state, "needs_clarification", FALSE)
            THEN ClarificationText(Get(state, "clarification_questions", <<>>))
            ELSE LET body == Strip(Get(state, "synthesized_response", <<>>))
                 IN  IF "review_note" \in DOMAIN state
                     THEN body \o <<Blank, state["review_note"], <<"reply_approve">> >>
                     ELSE body
    IN  _trace(Put(state, "response", response), Marker("final_response", <<>>))

\* ------------------------------------------------------------------ tools.py: reads of the store
\* The transactions and habits of a user enter the pipeline only through the
\* read tools; `finance` holds, per user, what those tools aggregate from them.

TxRow(description, category, type, amount) ==
    [description |-> description, category |-> category, transaction_type |-> type, amount |-> amount]

FinEmpty ==
    [total_credit |-> 0, total_debit |-> 0, top_categories |-> <<>>, anomalies |-> <<>>,
     velocity |-> 0, period_change |-> 0, goals |-> <<>>, tx |-> <<>>]

FinHealthy ==
    [total_credit |-> 18000, total_debit |-> 450, top_categories |-> <<"food", "bills">>,
     anomalies |-> <<>>, velocity |-> 0, period_change |-> -150, goals |-> <<"house">>,
     tx |-> <<TxRow("groceries", "food", "debit", 450)>>]

FinOverspending ==
    [total_credit |-> 900, total_debit |-> 900, top_categories |-> <<"shopping">>,
     anomalies |-> <<500, 400, 300>>, velocity |-> 600, period_change |-> 250, goals |-> <<>>,
     tx |-> <<TxRow("net cashflow refund", "other", "credit", 90), TxRow("shoes", "shopping", "debit", 900)>>]

FinNoIncome ==
    [total_credit |-> 0, total_debit |-> 450, top_categories |-> <<"subscriptions", "food">>,
     anomalies |-> <<700>>, velocity |-> -300, period_change |-> 0, goals |-> <<"trip">>,
     tx |-> <<>>]

FinSpiky ==
    [total_credit |-> 900, total_debit |-> 450, top_categories |-> <<"travel">>,
     anomalies |-> <<900, 800, 700, 600, 500>>, velocity |-> 1200, period_change |-> 400,
     goals |-> <<"car">>, tx |-> <<TxRow("flight", "travel", "debit", 450)>>]

FinProfiles == {FinEmpty, FinHealthy, FinOverspending, FinNoIncome, FinSpiky}

financial_snapshot(fin) ==
    [window_days |-> 45, transaction_count |-> Len(fin.tx), total_debit |-> fin.total_debit,
     total_credit |-> fin.total_credit, net_cashflow |-> fin.total_credit - fin.total_debit,
     top_categories |-> Take(fin.top_categories, 5)]

analytics_report(fin) ==
    [period_change_pct |-> fin.period_change, anomalies |-> Take(fin.anomalies, 5),
     spend_velocity_7d |-> [change_pct |-> fin.velocity]]

user_profile_summary(fin) == [goals |-> Take(fin.goals, 3)]

RECURSIVE SumAmounts(_, _)
SumAmounts(rows, type) ==
    IF rows = <<>> THEN 0
    ELSE (IF Head(rows).transaction_type = type THEN Head(rows).amount ELSE 0)
         + SumAmounts(Tail(rows), type)

\* rows: the user's transactions inside the asked range, most recent first
transaction_summary(rows, time_range, limit) ==
    [start_date |-> time_range.label, end_date_exclusive |-> time_range.label,
     transaction_count |-> Len(rows),
     total_debit |-> SumAmounts(rows, "debit"),
     total_credit |-> SumAmounts(rows, "credit"),
     net_cashflow |-> SumAmounts(rows, "credit") - SumAmounts(rows, "debit"),
     transactions |-> Take(rows, Max2(5, Min2(limit, 20)))]

\* recent_dialogue: the last `limit` messages of (user, session), oldest first,
\* without the empty ones
recent_dialogue(msgs, user_id, session_id, limit) ==
    LET mine == SelectSeq(msgs, LAMBDA m : m.user_id = user_id /\ m.session_id = session_id)
        last == SubSeq(mine, Max2(1, Len(mine) - limit + 1), Len(mine))
        kept == SelectSeq(last, LAMBDA m : m.role \in {"user", "assistant"} /\ ~m.empty)
    IN  [i \in 1..Len(kept) |-> [role |-> kept[i].role, content |-> kept[i].content]]

\* ------------------------------------------------------------------ semantic.py
\* A document is [source, text, tokens]; every token occurs once, so the hashed
\* bag-of-words vector is the indicator of `tokens` and the cosine of two
\* documents is |A \cap B| / sqrt(|A| * |B|).

Dot(query, doc) == Cardinality(query \cap doc.tokens)

\* cosine(query, a) > cosine(query, b), compared without the square roots
ScoresHigher(query, a, b) ==
    Dot(query, a) * Dot(query, a) * Cardinality(b.tokens)
        > Dot(query, b) * Dot(query, b) * Cardinality(a.tokens)

\* list.sort(key=score, reverse=True): stable, so equal scores keep corpus order
RECURSIVE SortByScore(_, _)
SortByScore(query, docs) ==
    IF docs = <<>> THEN <<>>
    ELSE LET rest == SortByScore(query, Tail(docs))
             d == Head(docs)
             before == SelectSeq(rest, LAMBDA x : ScoresHigher(query, x, d))
             after == SelectSeq(rest, LAMBDA x : ~ScoresHigher(query, x, d))
         IN  before \o <<d>> \o after

search(query, docs, limit) ==
    Take(SortByScore(query, SelectSeq(docs, LAMBDA d : d.tokens # {})), Max2(1, limit))

Reverse(s) == [i \in 1..Len(s) |-> s[Len(s) + 1 - i]]

MemoryDoc(m) ==
    [source |-> "memory", text |-> m.text,
     tokens |-> IF m.text[1] = "memory"
                THEN {"health", m.text[3], "sentimentflag", "riskreadiness", m.text[5]}
                ELSE {"disliked", "repetitive", "reply", "pattern"} \cup m.text[2]]

TransactionDoc(row) ==
    [source |-> "transaction", text |-> <<"transaction", row.description, row.category>>,
     tokens |-> {row.description, "category", row.category, "amount", "type", row.transaction_type}]

\* the shared knowledge base; no operation of the pipeline writes it
KnowledgeDocs ==
    << [source |-> "knowledge", text |-> <<"knowledge", "emergency fund basics">>,
        tokens |-> {"emergency", "fund", "invest", "budget"}] >>

\* a faulty read that forgets the user filter
MemoriesOfAnyUser(mems, user_id) == Reverse(mems)

\* find({"user_id": user_id}).sort("created_at", -1): the user's entries, newest first
MemoriesOf(mems, user_id) == Reverse(SelectSeq(mems, LAMBDA m : m.user_id = user_id))

semantic_context(mems, fin, user_id, query, limit) ==
    LET memory_docs == MemoriesOf(mems, user_id)
        corpus == [i \in 1..Len(memory_docs) |-> MemoryDoc(memory_docs[i])]
                  \o KnowledgeDocs
                  \o [i \in 1..Len(fin.tx) |-> TransactionDoc(fin.tx[i])]
    IN  search(query, corpus, limit)

\* ------------------------------------------------------------------ state

VARIABLES
    pc,          \* per run: where AssistantOrchestrator.run stands
    st,          \* per run: the state dict passed from agent to agent
    steps,       \* per run: list(state.get("plan", [])) the stage loop iterates
    idx,         \* per run: position of the loop in steps (1-based)
    err,         \* per run: the exception that left run(), "" when none
    synth,       \* per run: how the synthesizer's model call ended ("none" before it)
    mem_writes,  \* per run: number of insert_one calls on assistant_memories that succeeded
    memories,    \* db.assistant_memories, in insertion order
    messages,    \* db.assistant_messages, in insertion order
    finance,     \* per user id: what the read tools aggregate from the user's transactions and habits
    scenario,    \* what the language model and the clock may answer in this behaviour
    cpc,         \* per chat call: where POST /assistant/chat stands
    call,        \* per chat call: the request, the session it resolved and the graph state
    sessions,    \* db.assistant_sessions, in insertion order
    cerr,        \* per chat call: the exception that left the handler, "" when none
    now,         \* datetime.utcnow(), in minutes
    txs,         \* db.transactions of one user, in insertion order
    tcall,       \* the last call of a read tool on txs: its arguments and what it returned
    tleft        \* how many more transactions may be posted in this behaviour

ovars == <<pc, st, steps, idx, err, synth, mem_writes>>

dbvars == <<memories, messages, finance>>

chvars == <<cpc, call, sessions, cerr, now>>

toolvars == <<txs, tcall, tleft>>

vars ==
    <<pc, st, steps, idx, err, synth, mem_writes, memories, messages, finance, scenario,
      cpc, call, sessions, cerr, now, txs, tcall, tleft>>

\* messages, as the sets of keyword phrases they contain
MsgHello == {}

MsgInvest == {"invest", "how", "?"}

MsgInvestHorizon == {"invest", "horizon"}

MsgBudget == {"budget"}

MsgCashflowMonth == {"what is", "what", "cash flow", "this month"}

MsgSpendLastWeek == {"how much", "how", "spend", "last week", "?"}

MsgStress == {"stress", "impulse"}

MsgForecast == {"forecast", "next month"}

MsgUpload == {"upload", "statement", "transaction", "transactions"}

MsgHabit == {"explain", "habit", "net cashflow", "cashflow"}

MsgSpendThisMonth == {"how much", "how", "spend", "this month", "?"}

MsgSpendAges == {"how much", "how", "spend", "last 999999 days", "?"}

MsgBusyWeek == {"cashflow", "trend", "category", "unusual", "this week", "?"}

Messages ==
    {MsgHello, MsgInvest, MsgInvestHorizon, MsgBudget, MsgCashflowMonth, MsgSpendLastWeek,
     MsgStress, MsgForecast, MsgUpload, MsgHabit, MsgSpendThisMonth,
     MsgSpendAges, MsgBusyWeek}

InitialMemories ==
    << [id |-> 1, user_id |-> "u1", text |-> <<"memory", 700, "good", FALSE, "not_ready">>,
        source |-> "assistant_orchestrator"] >>

StoredMessage(user_id, session_id, role, content, empty) ==
    [user_id |-> user_id, session_id |-> session_id, role |-> role, content |-> content,
     empty |-> empty]

InitialDialogue ==
    << StoredMessage("u1", "s1", "user", {"stress"}, FALSE),
       StoredMessage("u1", "s1", "assistant", {}, FALSE),
       StoredMessage("u1", "s1", "user", {"worried"}, FALSE) >>

FullScenario ==
    [intent_completions |-> IntentCompletions, synth_completions |-> SynthCompletions,
     days |-> {10, 31}]

\* AssistantOrchestrator.run: dict(initial_state) with the two setdefault calls
StartState(user_id, session_id, message) ==
    [user_id |-> user_id, session_id |-> session_id, message |-> message, language |-> "English",
     agent_trace |-> <<>>, citations |-> <<>>]

IdleState == StartState("", "", {})

FinanceOf(user_id) == IF user_id \in DOMAIN finance THEN finance[user_id] ELSE FinEmpty

\* ------------------------------------------------------------------ the chat service at rest

Calls == {"c1", "c2"}

\* AssistantSession: id, user_id, status, last_activity_at, message_count
AssistantSession(id, user_id, at, count) ==
    [id |-> id, user_id |-> user_id, status |-> "active", last_activity_at |-> at,
     message_count |-> count]

IdleCall ==
    [user_id |-> "", session_id |-> "", message |-> {}, blank |-> TRUE, started |-> 0,
     sid |-> "", gst |-> <<>>]

\* no request is being handled
ChatOff ==
    /\ cpc = [c \in Calls |-> "off"]
    /\ call = [c \in Calls |-> IdleCall]
    /\ sessions = <<AssistantSession("s1", "u1", 0, 0)>>
    /\ cerr = [c \in Calls |-> ""]
    /\ now = 0

\* no tool is called on its own
NoCall == [op |-> "none"]

ToolsOff ==
    /\ txs = <<>>
    /\ tcall = NoCall
    /\ tleft = 0

\* One run of the pipeline (r1) on any message, for a user with any of the
\* finance profiles or for the empty user id; r2 never starts.
Init ==
    /\ \E u \in {"u1", ""}, m \in Messages :
          st = [r \in Runs |-> IF r = "r1" THEN StartState(u, "s1", m) ELSE IdleState]
    /\ pc = [r \in Runs |-> IF r = "r1" THEN "intent" ELSE "off"]
    /\ steps = [r \in Runs |-> <<>>]
    /\ idx = [r \in Runs |-> 1]
    /\ err = [r \in Runs |-> ""]
    /\ synth = [r \in Runs |-> "none"]
    /\ mem_writes = [r \in Runs |-> 0]
    /\ memories = InitialMemories
    /\ messages \in {<<>>, InitialDialogue}
    /\ \E f \in FinProfiles : finance = [u \in Users |-> IF u = "u1" THEN f ELSE FinEmpty]
    /\ scenario = FullScenario
    /\ ChatOff
    /\ ToolsOff

\* Two runs side by side: r1 for user u1 in session s1, r2 in the same session,
\* in another session of u1, for another user or for the empty user id. The
\* intent model call always fails (the keyword rules decide) and the
\* synthesizer's call fails or answers one line.
PairMessages == {MsgHello, MsgInvestHorizon, MsgSpendLastWeek}

PairKeys == {<<"u1", "s1">>, <<"u1", "s2">>, <<"u2", "s2">>, <<"", "s2">>}

PairScenario ==
    [intent_completions |-> {[kind |-> "raise"]},
     synth_completions |-> {[kind |-> "raise"], [kind |-> "text", text |-> <<LlmLine("answer")>>]},
     days |-> {10}]

InitPair ==
    /\ \E m1 \in PairMessages, m2 \in PairMessages, k \in PairKeys :
          st = [r \in Runs |-> IF r = "r1" THEN StartState("u1", "s1", m1)
                               ELSE StartState(k[1], k[2], m2)]
    /\ pc = [r \in Runs |-> "intent"]
    /\ steps = [r \in Runs |-> <<>>]
    /\ idx = [r \in Runs |-> 1]
    /\ err = [r \in Runs |-> ""]
    /\ synth = [r \in Runs |-> "none"]
    /\ mem_writes = [r \in Runs |-> 0]
    /\ memories = InitialMemories
    /\ messages = InitialDialogue
    /\ finance = [u \in Users |-> IF u = "u1" THEN FinHealthy ELSE FinOverspending]
    /\ scenario = PairScenario
    /\ ChatOff
    /\ ToolsOff

\* ------------------------------------------------------------------ AssistantOrchestrator.run, step by step

Raise(r, what) ==
    /\ pc' = [pc EXCEPT ![r] = "raised"]
    /\ err' = [err EXCEPT ![r] = what]

\* self.intent.run: the model call is inside try/except
Intent(r) ==
    /\ pc[r] = "intent"
    /\ IF TimeRangeOverflows(st[r]["message"])
       THEN /\ Raise(r, "overflow:extract_time_range")
            /\ UNCHANGED st
       ELSE /\ \E c \in scenario.intent_completions :
                  st' = [st EXCEPT ![r] = IntentDetectionAgent(st[r], c)]
            /\ pc' = [pc EXCEPT ![r] = "user_state"]
            /\ UNCHANGED err
    /\ UNCHANGED <<steps, idx, synth, mem_writes, memories, messages, finance, scenario, chvars, toolvars>>

\* self.user_state.run: six awaited reads, none inside a try
UserState(r) ==
    /\ pc[r] = "user_state"
    /\ \/ LET user_id == st[r]["user_id"]
              fin == FinanceOf(user_id)
              dialogue == recent_dialogue(messages, user_id, st[r]["session_id"], 8)
              sem_hits == semantic_context(memories, fin, user_id, Get(st[r], "message", {}), 6)
          IN  /\ st' = [st EXCEPT ![r] = UserStateAgent(st[r], financial_snapshot(fin),
                                                        analytics_report(fin),
                                                        user_profile_summary(fin), dialogue, sem_hits)]
              /\ pc' = [pc EXCEPT ![r] = "planner"]
              /\ UNCHANGED err
       \/ /\ Raise(r, "read:user_state")
          /\ UNCHANGED st
    /\ UNCHANGED <<steps, idx, synth, mem_writes, memories, messages, finance, scenario, chvars, toolvars>>

\* a faulty branch that clarifies and then still runs the plan
AfterPlannerNoShortCircuit(state) ==
    IF Get(state, "plan", <<>>) = <<>> THEN "review" ELSE "loop"

\* if state.get("needs_clarification"): clarification and final only; else the loop
AfterPlanner(state) ==
    IF Get(state, "needs_clarification", FALSE) THEN "clarification"
    ELSE IF Get(state, "plan", <<>>) = <<>> THEN "review" ELSE "loop"

\* self.planner.run, then the branch on needs_clarification and the copy of
\* the plan the loop iterates
Planner(r) ==
    /\ pc[r] = "planner"
    /\ LET planned == PlannerAgent(st[r])
           plan == Get(planned, "plan", <<>>)
       IN  /\ st' = [st EXCEPT ![r] = planned]
           /\ steps' = [steps EXCEPT ![r] = plan]
           /\ pc' = [pc EXCEPT ![r] = AfterPlanner(planned)]
    /\ idx' = [idx EXCEPT ![r] = 1]
    /\ UNCHANGED <<err, synth, mem_writes, memories, messages, finance, scenario, chvars, toolvars>>

Clarification(r) ==
    /\ pc[r] = "clarification"
    /\ st' = [st EXCEPT ![r] = ClarificationAgent(st[r])]
    /\ pc' = [pc EXCEPT ![r] = "final"]
    /\ UNCHANGED <<steps, idx, err, synth, mem_writes, memories, messages, finance, scenario, chvars, toolvars>>

\* self.agents: the registry of the plan stages
AgentNames ==
    {"ingestion", "categorization", "transaction_query", "expense", "budget", "forecasting",
     "behaviour", "sentiment", "investment", "learning", "financial_health", "synthesizer"}

AwaitingStages == {"transaction_query", "forecasting", "synthesizer"}

RunAgent(name, state) ==
    CASE name = "ingestion" -> IngestionAgent(state)
      [] name = "categorization" -> CategorizationAgent(state)
      [] name = "expense" -> ExpenseAgent(state)
      [] name = "budget" -> BudgetAgent(state)
      [] name = "behaviour" -> BehaviourAgent(state)
      [] name = "sentiment" -> SentimentAgent(state)
      [] name = "investment" -> InvestmentAgent(state)
      [] name = "learning" -> LearningAgent(state)
      [] name = "financial_health" -> FinancialHealthAgent(state)
      [] OTHER -> state

\* for step in list(plan): the loop takes the next element
\* a faulty loop that steps over every other stage
NextIndexSkipping(i) == i + 2

NextIndex(i) == i + 1

CurrentStep(r) == steps[r][idx[r]]

Advance(r) ==
    /\ idx' = [idx EXCEPT ![r] = NextIndex(idx[r])]
    /\ pc' = [pc EXCEPT ![r] = IF NextIndex(idx[r]) > Len(steps[r]) THEN "review" ELSE "loop"]

InLoop(r) == pc[r] = "loop" /\ idx[r] <= Len(steps[r])

\* a stage that awaits nothing; a name missing from the registry is passed over
Stage(r) ==
    /\ InLoop(r)
    /\ CurrentStep(r) \notin AwaitingStages
    /\ st' = [st EXCEPT ![r] = IF CurrentStep(r) \in AgentNames
                                THEN RunAgent(CurrentStep(r), st[r]) ELSE st[r]]
    /\ Advance(r)
    /\ UNCHANGED <<steps, err, synth, mem_writes, memories, messages, finance, scenario, chvars, toolvars>>

\* transaction_query: awaits tools.transaction_summary when a summary is needed
StageTransactionQuery(r) ==
    /\ InLoop(r)
    /\ CurrentStep(r) = "transaction_query"
    /\ \/ /\ st' = [st EXCEPT ![r] =
                      TransactionQueryAgent(st[r],
                          IF NeedsTx(st[r])
                          THEN transaction_summary(FinanceOf(Get(st[r], "user_id", "")).tx,
                                                   st[r]["query_focus"].time_range, 20)
                          ELSE <<>>)]
          /\ Advance(r)
          /\ UNCHANGED err
       \/ /\ NeedsTx(st[r])
          /\ Raise(r, "read:transaction_query")
          /\ UNCHANGED <<st, idx>>
    /\ UNCHANGED <<steps, synth, mem_writes, memories, messages, finance, scenario, chvars, toolvars>>

\* forecasting: reads the clock
StageForecasting(r) ==
    /\ InLoop(r)
    /\ CurrentStep(r) = "forecasting"
    /\ \E day \in scenario.days : st' = [st EXCEPT ![r] = ForecastingAgent(st[r], day)]
    /\ Advance(r)
    /\ UNCHANGED <<steps, err, synth, mem_writes, memories, messages, finance, scenario, chvars, toolvars>>

\* synthesizer: the model call is inside try/except
StageSynthesizer(r) ==
    /\ InLoop(r)
    /\ CurrentStep(r) = "synthesizer"
    /\ \E c \in scenario.synth_completions :
          /\ st' = [st EXCEPT ![r] = SynthesizerAgent(st[r], c)]
          /\ synth' = [synth EXCEPT ![r] = c.kind]
    /\ Advance(r)
    /\ UNCHANGED <<steps, err, mem_writes, memories, messages, finance, scenario, chvars, toolvars>>

Review(r) ==
    /\ pc[r] = "review"
    /\ st' = [st EXCEPT ![r] = HumanReviewAgent(st[r])]
    /\ pc' = [pc EXCEPT ![r] = "memory"]
    /\ UNCHANGED <<steps, idx, err, synth, mem_writes, memories, messages, finance, scenario, chvars, toolvars>>

\* self.memory.run: nothing for an empty user id, else one awaited insert_one
Memory(r) ==
    /\ pc[r] = "memory"
    /\ \/ /\ Get(st[r], "user_id", "") = ""
          /\ pc' = [pc EXCEPT ![r] = "final"]
          /\ UNCHANGED <<st, err, mem_writes, memories>>
       \/ /\ Get(st[r], "user_id", "") # ""
          /\ memories' = insert_one(memories, MemoryPayload(st[r], Len(memories) + 1))
          /\ mem_writes' = [mem_writes EXCEPT ![r] = @ + 1]
          /\ st' = [st EXCEPT ![r] = _trace(st[r], Marker("memory_update", <<>>))]
          /\ pc' = [pc EXCEPT ![r] = "final"]
          /\ UNCHANGED err
       \/ /\ Get(st[r], "user_id", "") # ""
          /\ Raise(r, "write:memory_update")
          /\ UNCHANGED <<st, mem_writes, memories>>
    /\ UNCHANGED <<steps, idx, synth, messages, finance, scenario, chvars, toolvars>>

\* self.final.run, after which run() returns the state
Final(r) ==
    /\ pc[r] = "final"
    /\ st' = [st EXCEPT ![r] = FinalResponseAgent(st[r])]
    /\ pc' = [pc EXCEPT ![r] = "done"]
    /\ UNCHANGED <<steps, idx, err, synth, mem_writes, memories, messages, finance, scenario, chvars, toolvars>>

Next ==
    \E r \in Runs :
        \/ Intent(r)
        \/ UserState(r)
        \/ Planner(r)
        \/ Clarification(r)
        \/ Stage(r)
        \/ StageTransactionQuery(r)
        \/ StageForecasting(r)
        \/ StageSynthesizer(r)
        \/ Review(r)
        \/ Memory(r)
        \/ Final(r)

Spec == Init /\ [][Next]_vars

\* ------------------------------------------------------------------ properties of the pipeline

Trace(r) == Get(st[r], "agent_trace", <<>>)

TraceNames(r) == [i \in 1..Len(Trace(r)) |-> Trace(r)[i].name]

\* the entries of the trace written by plan stages, in trace order
StageNames(r) == SelectSeq(TraceNames(r), LAMBDA n : n \in AgentNames)

Clarifying(r) == Get(st[r], "needs_clarification", FALSE)

Planned(r) == "plan" \in DOMAIN st[r]

\* C1 (planner short-circuit): once the planner has reported a missing field,
\* needs_clarification is set, no plan stage ever writes to the trace, the
\* synthesizer's model call is never made, and the run ends with the trace
\* intent_detection, user_state, planner, clarification, final_response.
C1_PlannerShortCircuit ==
    \A r \in Runs :
        (Planned(r) /\ st[r]["missing_fields"] # <<>>) =>
            /\ Clarifying(r)
            /\ StageNames(r) = <<>>
            /\ synth[r] = "none"
            /\ pc[r] \in {"clarification", "final", "done"}
            /\ pc[r] = "done" =>
                  TraceNames(r) = <<"intent_detection", "user_state", "planner",
                                    "clarification", "final_response">>

C1_Witness ==
    \E r \in Runs :
        /\ pc[r] = "done"
        /\ st[r]["intent"] = "investment_question"
        /\ "horizon" \notin st[r]["message"]
        /\ st[r]["user_state"].goals = <<>>
        /\ st[r]["missing_fields"] = <<"goal", "investment_horizon">>

\* C2 (the trace only grows): every step of every run leaves the trace it
\* found as a prefix of the trace it returns.
C2_TraceOnlyGrows ==
    [][\A r \in Runs : IsPrefix(Trace(r), Get(st'[r], "agent_trace", <<>>))]_vars

C2_Witness ==
    \E r \in Runs :
        /\ pc[r] = "done"
        /\ ~Clarifying(r)
        /\ Len(Trace(r)) >= Len(DefaultPlan) + 5

\* C3 (strict sequential execution): on the execution path the plan stages
\* that have written to the trace are exactly the first idx-1 names of the
\* plan, in plan order, each once; after the loop they are the whole plan.
C3_StagesInPlanOrder ==
    \A r \in Runs :
        (Planned(r) /\ ~Clarifying(r)) =>
            /\ StageNames(r) = Take(st[r]["plan"], idx[r] - 1)
            /\ pc[r] \in {"review", "memory", "final", "done"} => StageNames(r) = st[r]["plan"]

C3_Witness ==
    \E r \in Runs :
        /\ pc[r] = "done"
        /\ st[r]["intent"] = "emotional_spending"
        /\ StageNames(r) = <<"transaction_query", "expense", "behaviour", "sentiment", "budget",
                             "learning", "financial_health", "synthesizer">>

\* C4 (stage failure containment), as claimed: a failure of the read awaited by
\* transaction_query or of the insert awaited by memory_update never leaves
\* run() as an exception.
C4_StageFailureContained ==
    \A r \in Runs : err[r] \notin {"read:transaction_query", "write:memory_update"}

\* C9 (memory entries are append-only), as claimed: a finished run has inserted
\* exactly one memory entry when it executed its plan and none when it asked
\* for clarification.
C9_OnePerExecutedRun ==
    \A r \in Runs :
        pc[r] = "done" => mem_writes[r] = (IF Clarifying(r) THEN 0 ELSE 1)

\* C9, amended: a finished run has inserted exactly one memory entry, for its
\* user, when it executed its plan with a non-empty user id, and none when the
\* user id is empty or it asked for clarification; no step of any run changes
\* or removes an entry that is already stored.
C9_AppendOnlyMemory ==
    /\ [](\A r \in Runs :
            pc[r] = "done" =>
                mem_writes[r] = (IF Clarifying(r) \/ st[r]["user_id"] = "" THEN 0 ELSE 1))
    /\ [][/\ IsPrefix(memories, memories')
          /\ \A r \in Runs :
                mem_writes'[r] # mem_writes[r] =>
                    /\ Len(memories') = Len(memories) + 1
                    /\ memories'[Len(memories')].user_id = st[r]["user_id"]
          /\ (\A r \in Runs : mem_writes'[r] = mem_writes[r]) => memories' = memories]_vars

C9_Witness ==
    \E r \in Runs :
        /\ pc[r] = "done"
        /\ ~Clarifying(r)
        /\ mem_writes[r] = 1
        /\ Len(memories) = Len(InitialMemories) + 1
        /\ memories[Len(memories)].user_id = st[r]["user_id"]

\* C10 (human review is advisory): the planner sets needs_human_review exactly
\* when the user has three or more anomalies or the intent is
\* investment_question; a flagged run still executes its plan in order, and its
\* response is the synthesized text followed by the review note and the
\* approval line, where an unflagged run returns the synthesized text alone.
C10_ReviewIsAdvisory ==
    \A r \in Runs :
        Planned(r) =>
            LET flagged == st[r]["needs_human_review"]
                anomalies == FinanceOf(st[r]["user_id"]).anomalies
            IN  /\ flagged <=> (Len(anomalies) >= 3 \/ st[r]["intent"] = "investment_question")
                /\ (pc[r] = "done" /\ ~Clarifying(r)) =>
                      /\ StageNames(r) = st[r]["plan"]
                      /\ LET body == Strip(st[r]["synthesized_response"])
                             n == Len(st[r]["response"])
                         IN  IF flagged
                             THEN /\ n = Len(body) + 3
                                  /\ Take(st[r]["response"], Len(body)) = body
                                  /\ st[r]["response"][n - 2] = Blank
                                  /\ st[r]["response"][n - 1][1]
                                         \in {"review_needed", "review_suggested_anomalies"}
                                  /\ st[r]["response"][n] = <<"reply_approve">>
                             ELSE st[r]["response"] = body

C10_Witness ==
    \E r \in Runs :
        /\ pc[r] = "done"
        /\ ~Clarifying(r)
        /\ st[r]["needs_human_review"]
        /\ st[r]["intent"] # "investment_question"
        /\ Len(FinanceOf(st[r]["user_id"]).anomalies) = 3
        /\ st[r]["response"][Len(st[r]["response"])] = <<"reply_approve">>

\* ------------------------------------------------------------------ two runs side by side

SpecPair == InitPair /\ [][Next]_vars

User(r) == st[r]["user_id"]

Session(r) == st[r]["session_id"]

Restrict(state, keys) == [k \in (DOMAIN state) \cap keys |-> state[k]]

\* the intent, the net-cashflow switch and the reports of the other stages
ReportKeys ==
    {"intent", "show_net_cashflow", "sentiment_report", "investment_report",
     "financial_health_report", "budget_report", "forecast_report", "transaction_report"}

\* what the synthesizer stores when its model call fails, from the reports alone
FallbackText(reports) ==
    LET text == _fallback_summary(reports)
    IN  ReplaceCurrency(IF Get(reports, "show_net_cashflow", FALSE) THEN text
                        ELSE SuppressNet(text))

\* C7 (synthesizer fallback): when the synthesizer's model call has failed,
\* synthesized_response is non-empty, it is what _fallback_summary gives on the
\* reports of the other stages alone, and two runs whose reports are equal
\* hold the same text.
C7_SynthesizerFallback ==
    \A a \in Runs :
        synth[a] = "raise" =>
            /\ st[a]["synthesized_response"] # <<>>
            /\ st[a]["synthesized_response"] = FallbackText(Restrict(st[a], ReportKeys))
            /\ \A b \in Runs :
                  (synth[b] = "raise" /\ Restrict(st[a], ReportKeys) = Restrict(st[b], ReportKeys))
                      => st[a]["synthesized_response"] = st[b]["synthesized_response"]

C7_Witness ==
    /\ synth["r1"] = "raise" /\ synth["r2"] = "raise"
    /\ Restrict(st["r1"], ReportKeys) = Restrict(st["r2"], ReportKeys)
    /\ Get(Get(st["r1"], "transaction_report", <<>>), "transaction_count", 0) > 0
    /\ Len(st["r1"]["synthesized_response"]) > 3

HasRead(r) == "user_state" \in DOMAIN st[r]

\* the citations the run gets when no other run has written before its reads
CitationsAlone(r) ==
    Citations(semantic_context(InitialMemories, FinanceOf(User(r)), User(r), st[r]["message"], 6))

DialogueAlone(r) == recent_dialogue(InitialDialogue, User(r), Session(r), 8)

ReadsAsAlone(r) ==
    /\ st[r]["citations"] = CitationsAlone(r)
    /\ st[r]["recent_dialogue"] = DialogueAlone(r)

Text(has) == [blank |-> FALSE, has |-> has]

EmptyText == [blank |-> TRUE, has |-> {}]

DisclaimerSentence == "consult a licensed professional"

GoalSentence == "want me to update your profile with this new goal?"

\* re.sub of INR and Rs. by the rupee sign
ReplaceRupee(text) ==
    IF text.has \cap {"inr", "rs"} = {} THEN text
    ELSE [text EXCEPT !.has = (@ \ {"inr", "rs"}) \cup {"rupee"}]

\* a faulty validator that never adds the sentence it found missing
AppendNothing(text, sentence) == text

\* f"{final_text}\n{required}".strip()
AppendSentence(text, sentence) == Text(text.has \cup {sentence})

\* f"Sorry about that. {final_text}".strip()
PrependSorry(text) == Text(text.has \cup {"sorry"})

GraphIntents == {"data_query", "planning", "education", "smalltalk"}

\* the completions of a chat model call: it raises, or it returns content
LlmRaise == [kind |-> "raise"]

RouterCompletions ==
    {LlmRaise, [kind |-> "malformed"]}
        \cup {[kind |-> "json", intent |-> i] : i \in {"planning", "other"}}

\* what the analyst's and the coach's call can return
AnalysisTexts == {Text({})}

AnswerTexts == {EmptyText, Text({"inr", "sorry"})}

\* what the validator's call can do
ValidatorCompletions ==
    {LlmRaise} \cup {[kind |-> "text", text |-> t] : t \in {EmptyText, Text({"rs", DisclaimerSentence})}}

\* the except branch of _router_agent
RouterKeywordIntent(message) ==
    IF Has(message, {"how much", "spent", "balance", "total", "last month", "trend",
                     "analytics", "compare"}) THEN "data_query"
    ELSE IF Has(message, {"what is", "explain", "meaning", "learn"}) THEN "education"
    ELSE IF Has(message, {"hi", "hello", "hey", "namaste"}) THEN "smalltalk"
    ELSE "planning"

GraphTrace(state, entry) ==
    Put(state, "agent_trace", Append(Get(state, "agent_trace", <<>>), entry))

_router_agent(state, completion) ==
    LET message == Get(state, "message", {})
        intent == IF completion.kind = "json"
                  THEN (IF completion.intent \in GraphIntents THEN completion.intent
                        ELSE "planning")
                  ELSE RouterKeywordIntent(message)
        s1 == Put(state, "intent", intent)
        s2 == Put(s1, "daily_checkin",
                  Has(message, {"check in", "check-in", "daily check", "today update",
                                "today status", "morning update"}))
        s3 == Put(s2, "goal_change",
                  Has(message, {"new goal", "change my goal", "update my goal", "my goal is",
                                "i want a new goal"}))
        s4 == Put(s3, "requires_professional_disclaimer",
                  Has(message, {"legal advice", "tax filing", "lawsuit", "regulated advice",
                                "guaranteed return"}))
        s5 == Put(s4, "dissatisfied", detect_dissatisfaction(message))
        s6 == Put(s5, "user_tone", infer_user_tone(message))
        s7 == Put(s6, "query_focus", finance_query_focus(message))
    IN  GraphTrace(s7, <<"router", intent>>)

\* tools.preferred_response_style over the prior user turns and the message
preferred_response_style(message, dialogue) ==
    LET text == message \cup UNION {dialogue[i].content :
                                        i \in {j \in 1..Len(dialogue) : dialogue[j].role = "user"}}
    IN  IF Has(text, {"short", "brief", "quick answer", "just answer", "tldr"}) THEN "concise"
        ELSE IF Has(text, {"detailed", "in detail", "deep", "step by step"}) THEN "detailed"
        ELSE IF Has(text, {"example", "sample", "show me"}) THEN "example_driven"
        ELSE "balanced"

\* tools.user_style_preferences: the stored preference, "balanced" unless it is
\* one of the four styles
StylePreference(stored) ==
    IF stored \in {"concise", "detailed", "example_driven", "balanced"} THEN stored
    ELSE "balanced"

_retriever_agent(state, hits, profile, dialogue, stored_style) ==
    LET style0 == preferred_response_style(state["message"], dialogue)
        style == IF style0 = "balanced" THEN StylePreference(stored_style) ELSE style0
        cites == Citations(hits)
        s1 == Put(state, "retrieved_context", cites)
        s2 == Put(s1, "citations", cites)
        s3 == Put(s2, "user_profile", profile)
        s4 == Put(s3, "recent_dialogue", dialogue)
        s5 == Put(s4, "response_style", style)
    IN  GraphTrace(s5, <<"retriever", Len(cites)>>)

_after_retriever(state) ==
    IF Get(state, "intent", "planning") = "smalltalk" THEN "coach" ELSE "analyst"

\* _analyst_agent, when its model call returns
_analyst_agent(state, snapshot, analytics, text) ==
    LET s1 == Put(state, "financial_snapshot", snapshot)
        s2 == Put(s1, "analytics_report", analytics)
        s3 == Put(s2, "analysis", text)
    IN  GraphTrace(s3, <<"analyst", "done">>)

\* _coach_agent, when its model call returns
_coach_agent(state, text) ==
    GraphTrace(Put(state, "response", ReplaceRupee(text)), <<"coach", "finalized">>)

\* _validator_agent up to the write of the feedback memory
_validator_agent(state, completion) ==
    LET response == Get(state, "response", EmptyText)
        t0 == IF completion.kind = "text" /\ ~completion.text.blank THEN completion.text
              ELSE response
        t1 == ReplaceRupee(t0)
        t2 == IF Get(state, "requires_professional_disclaimer", FALSE)
                   /\ DisclaimerSentence \notin t1.has
              THEN AppendSentence(t1, DisclaimerSentence) ELSE t1
        t3 == IF Get(state, "goal_change", FALSE) /\ GoalSentence \notin t2.has
              THEN AppendSentence(t2, GoalSentence) ELSE t2
        t4 == IF Get(state, "dissatisfied", FALSE) /\ "sorry" \notin t3.has
              THEN PrependSorry(t3) ELSE t3
    IN  GraphTrace(Put(state, "response", t4), <<"validator", "checked">>)

\* tools.store_feedback_memory: the document it inserts
FeedbackPayload(user_id, message, id) ==
    [id |-> id, user_id |-> user_id, text |-> <<"feedback", message>>,
     source |-> "assistant_feedback"]

\* ------------------------------------------------------------------ service.py, router.py: POST /assistant/chat

\* reuse_window_minutes of start_or_reuse_session
ReuseWindow == 20

\* the clock moves in steps of TickMinutes up to MaxNow
TickMinutes == 30

MaxNow == 30

\* uuid4 of a new session: a name no stored session has
FreshIds == <<"s1", "s2", "s3">>

ChatHello == {"hello"}

ChatSpent == {"how much", "how", "spent", "last month", "?"}

ChatComplaint == {"boring", "my goal is", "goal", "legal advice"}

ChatInputs ==
    {[message |-> ChatHello, blank |-> FALSE], [message |-> ChatComplaint, blank |-> FALSE],
     [message |-> {}, blank |-> TRUE]}

SecondInputs == {[message |-> ChatSpent, blank |-> FALSE]}

\* one earlier turn of u1 in session s1
ChatDialogue ==
    << StoredMessage("u1", "s1", "user", {"stress"}, FALSE),
       StoredMessage("u1", "s1", "assistant", {}, FALSE) >>

\* Two requests, c1 of user u1 and c2 of u1 or u2, both naming session s1 or
\* both naming none; the store holds no session, or session s1 of u1 with one
\* earlier turn.
InitChat ==
    /\ pc = [r \in Runs |-> "off"]
    /\ st = [r \in Runs |-> IdleState]
    /\ steps = [r \in Runs |-> <<>>]
    /\ idx = [r \in Runs |-> 1]
    /\ err = [r \in Runs |-> ""]
    /\ synth = [r \in Runs |-> "none"]
    /\ mem_writes = [r \in Runs |-> 0]
    /\ memories = InitialMemories
    /\ finance = [u \in Users |-> IF u = "u1" THEN FinHealthy ELSE FinOverspending]
    /\ scenario = PairScenario
    /\ \E had \in BOOLEAN :
          /\ sessions = IF had THEN <<AssistantSession("s1", "u1", 0, 2)>> ELSE <<>>
          /\ messages = IF had THEN ChatDialogue ELSE <<>>
    /\ \E u2 \in Users, k \in {"", "s1"}, m1 \in ChatInputs, m2 \in SecondInputs :
          call = [c \in Calls |->
                    [IdleCall EXCEPT !.user_id = IF c = "c1" THEN "u1" ELSE u2,
                                     !.session_id = k,
                                     !.message = IF c = "c1" THEN m1.message ELSE m2.message,
                                     !.blank = IF c = "c1" THEN m1.blank ELSE m2.blank]]
    /\ cpc = [c \in Calls |-> "new"]
    /\ cerr = [c \in Calls |-> ""]
    /\ now = 0
    /\ ToolsOff

orchvars == <<pc, st, steps, idx, err, synth, mem_writes, finance, scenario, toolvars>>

Goto(c, where) == cpc' = [cpc EXCEPT ![c] = where]

\* now - last_activity <= timedelta(minutes=reuse_window_minutes)
Fresh(session, started) == started - session.last_activity_at <= ReuseWindow

ActiveOf(user_id) ==
    {i \in 1..Len(sessions) : sessions[i].user_id = user_id /\ sessions[i].status = "active"}

\* assistant_chat: an empty message is rejected with status 400; otherwise
\* chat() is awaited and start_or_reuse_session reads the clock
ChatReceive(c) ==
    /\ cpc[c] = "new"
    /\ IF call[c].blank
       THEN Goto(c, "rejected") /\ UNCHANGED call
       ELSE /\ call' = [call EXCEPT ![c].started = now]
            /\ Goto(c, IF call[c].session_id # "" THEN "find_existing" ELSE "find_latest")
    /\ UNCHANGED <<orchvars, memories, messages, sessions, cerr, now>>

\* find_one({"id": existing_session_id, "user_id": user_id, "status": "active"})
ChatFindExisting(c) ==
    /\ cpc[c] = "find_existing"
    /\ LET hit == {i \in ActiveOf(call[c].user_id) : sessions[i].id = call[c].session_id}
       IN  IF \E i \in hit : Fresh(sessions[i], call[c].started)
           THEN /\ call' = [call EXCEPT ![c].sid = call[c].session_id]
                /\ Goto(c, "insert_user")
           ELSE /\ Goto(c, "find_latest")
                /\ UNCHANGED call
    /\ UNCHANGED <<orchvars, memories, messages, sessions, cerr, now>>

\* find_one({"user_id": user_id, "status": "active"}, sort=[("last_activity_at", -1)]);
\* a new AssistantSession is built when there is none in the window
ChatFindLatest(c) ==
    /\ cpc[c] = "find_latest"
    /\ LET mine == ActiveOf(call[c].user_id)
           latest == {i \in mine : \A j \in mine :
                          sessions[j].last_activity_at <= sessions[i].last_activity_at}
       IN  \/ /\ \E i \in latest :
                    /\ Fresh(sessions[i], call[c].started)
                    /\ call' = [call EXCEPT ![c].sid = sessions[i].id]
              /\ Goto(c, "insert_user")
           \/ /\ \A i \in latest : ~Fresh(sessions[i], call[c].started)
              /\ call' = [call EXCEPT ![c].started = now]
              /\ Goto(c, "insert_session")
    /\ UNCHANGED <<orchvars, memories, messages, sessions, cerr, now>>

\* db.assistant_sessions.insert_one(session.model_dump())
ChatInsertSession(c) ==
    /\ cpc[c] = "insert_session"
    /\ Len(sessions) < Len(FreshIds)
    /\ LET id == FreshIds[Len(sessions) + 1]
       IN  /\ sessions' = Append(sessions, AssistantSession(id, call[c].user_id, call[c].started, 0))
           /\ call' = [call EXCEPT ![c].sid = id]
    /\ Goto(c, "insert_user")
    /\ UNCHANGED <<orchvars, memories, messages, cerr, now>>

\* AssistantGraph.run: the initial state of a turn
GraphStart(user_id, session_id, message) ==
    [user_id |-> user_id, session_id |-> session_id, message |-> message,
     language |-> "English", agent_trace |-> <<>>, citations |-> <<>>]

\* db.assistant_messages.insert_one(user_msg.model_dump()), then graph.run starts
ChatInsertUser(c) ==
    /\ cpc[c] = "insert_user"
    /\ messages' = Append(messages, StoredMessage(call[c].user_id, call[c].sid, "user",
                                                   call[c].message, FALSE))
    /\ call' = [call EXCEPT ![c].gst = GraphStart(call[c].user_id, call[c].sid, call[c].message)]
    /\ Goto(c, "router")
    /\ UNCHANGED <<orchvars, memories, sessions, cerr, now>>

\* a node raised: graph.ainvoke, graph.run and chat() pass the exception on
ChatRaise(c, what) ==
    /\ Goto(c, "raised")
    /\ cerr' = [cerr EXCEPT ![c] = what]

\* _router_agent: the model call is inside try/except
ChatRouter(c) ==
    /\ cpc[c] = "router"
    /\ \E completion \in RouterCompletions :
          call' = [call EXCEPT ![c].gst = _router_agent(call[c].gst, completion)]
    /\ Goto(c, "retriever")
    /\ UNCHANGED <<orchvars, memories, messages, sessions, cerr, now>>

\* db.assistant_user_prefs, which no operation modelled here writes
StoredStyle(user_id) == IF user_id = "u1" THEN "concise" ELSE ""

\* _retriever_agent: four awaited reads, then the edge chosen by _after_retriever
ChatRetriever(c) ==
    /\ cpc[c] = "retriever"
    /\ LET user_id == call[c].user_id
           fin == FinanceOf(user_id)
           hits == semantic_context(memories, fin, user_id, call[c].message, 6)
           dialogue == recent_dialogue(messages, user_id, call[c].sid, 8)
           state == _retriever_agent(call[c].gst, hits, user_profile_summary(fin),
                                     dialogue, StoredStyle(user_id))
       IN  /\ call' = [call EXCEPT ![c].gst = state]
           /\ Goto(c, _after_retriever(state))
    /\ UNCHANGED <<orchvars, memories, messages, sessions, cerr, now>>

\* _analyst_agent: two reads, then a model call outside any try
ChatAnalyst(c) ==
    /\ cpc[c] = "analyst"
    /\ LET fin == FinanceOf(call[c].user_id)
       IN  \/ /\ \E text \in AnalysisTexts :
                    call' = [call EXCEPT ![c].gst =
                                _analyst_agent(call[c].gst, financial_snapshot(fin),
                                               analytics_report(fin), text)]
              /\ Goto(c, "coach")
              /\ UNCHANGED cerr
           \/ /\ ChatRaise(c, "llm:analyst")
              /\ UNCHANGED call
    /\ UNCHANGED <<orchvars, memories, messages, sessions, now>>

\* _coach_agent: a model call outside any try
ChatCoach(c) ==
    /\ cpc[c] = "coach"
    /\ \/ /\ \E text \in AnswerTexts :
                call' = [call EXCEPT ![c].gst = _coach_agent(call[c].gst, text)]
          /\ Goto(c, "validator")
          /\ UNCHANGED cerr
       \/ /\ ChatRaise(c, "llm:coach")
          /\ UNCHANGED call
    /\ UNCHANGED <<orchvars, memories, messages, sessions, now>>

\* _validator_agent: the model call and the feedback write are each inside a
\* try/except; the write happens for a dissatisfied user with a user id
ChatValidator(c) ==
    /\ cpc[c] = "validator"
    /\ \E completion \in ValidatorCompletions :
          call' = [call EXCEPT ![c].gst = _validator_agent(call[c].gst, completion)]
    /\ IF Get(call[c].gst, "dissatisfied", FALSE) /\ call[c].user_id # ""
       THEN \/ memories' = insert_one(memories,
                                      FeedbackPayload(call[c].user_id, call[c].message,
                                                      Len(memories) + 1))
            \/ UNCHANGED memories
       ELSE UNCHANGED memories
    /\ Goto(c, "insert_assistant")
    /\ UNCHANGED <<orchvars, messages, sessions, cerr, now>>

\* db.assistant_messages.insert_one(assistant_msg.model_dump())
ChatInsertAssistant(c) ==
    /\ cpc[c] = "insert_assistant"
    /\ LET response == Get(call[c].gst, "response", EmptyText)
       IN  messages' = Append(messages, StoredMessage(call[c].user_id, call[c].sid, "assistant",
                                                      response.has, response.blank))
    /\ Goto(c, "update_session")
    /\ UNCHANGED <<orchvars, memories, call, sessions, cerr, now>>

\* db.assistant_sessions.update_one: last_activity_at and $inc message_count by 2
ChatUpdateSession(c) ==
    /\ cpc[c] = "update_session"
    /\ sessions' = [i \in 1..Len(sessions) |->
                      IF sessions[i].id = call[c].sid /\ sessions[i].user_id = call[c].user_id
                      THEN [sessions[i] EXCEPT !.last_activity_at = now, !.message_count = @ + 2]
                      ELSE sessions[i]]
    /\ Goto(c, "returned")
    /\ UNCHANGED <<orchvars, memories, messages, call, cerr, now>>

\* time passes between two steps
Tick ==
    /\ now < MaxNow
    /\ now' = now + TickMinutes
    /\ UNCHANGED <<orchvars, memories, messages, cpc, call, sessions, cerr>>

NextChat ==
    \/ Tick
    \/ \E c \in Calls :
          \/ ChatReceive(c)
          \/ ChatFindExisting(c)
          \/ ChatFindLatest(c)
          \/ ChatInsertSession(c)
          \/ ChatInsertUser(c)
          \/ ChatRouter(c)
          \/ ChatRetriever(c)
          \/ ChatAnalyst(c)
          \/ ChatCoach(c)
          \/ ChatValidator(c)
          \/ ChatInsertAssistant(c)
          \/ ChatUpdateSession(c)

SpecChat == InitChat /\ [][NextChat]_vars

\* ------------------------------------------------------------------ properties of the chat service

\* the user message of the call is stored and its answer is not yet
InPipeline(c) ==
    cpc[c] \in {"router", "retriever", "analyst", "coach", "validator", "insert_assistant"}

SessionMessages(sid) == SelectSeq(messages, LAMBDA m : m.session_id = sid)

Alternates(dialogue) ==
    \A i \in 1..Len(dialogue) : dialogue[i].role = (IF i % 2 = 1 THEN "user" ELSE "assistant")

\* C5 (per-session serialization), as claimed: two calls on one session are
\* never both between the insert of their user message and the insert of their
\* answer, and as long as no call has raised the messages stored for a session
\* alternate user, assistant.
C5_SerializedPerSession ==
    /\ \A c \in Calls : \A d \in Calls \ {c} :
          (InPipeline(c) /\ InPipeline(d)) => call[c].sid # call[d].sid
    /\ (\A c \in Calls : cpc[c] # "raised") =>
          \A sid \in Range(FreshIds) : Alternates(SessionMessages(sid))

\* C6 (language-model failures never reach the caller), as claimed: no call of
\* chat() ends with the exception of a model call of the router, the analyst,
\* the coach or the validator.
C6_LlmFailuresContained ==
    \A c \in Calls : cerr[c] \notin {"llm:router", "llm:analyst", "llm:coach", "llm:validator"}

\* ------------------------------------------------------------------ properties of the planner's rules

Income(r) == Get(st[r], "user_state", EmptyUserState).cash_flow.income

HasGoals(r) == Get(st[r], "user_state", EmptyUserState).goals # <<>>

StatesHorizon(r) == "horizon" \in st[r]["message"]

\* the rules every intent other than investment_question obeys
OtherIntentRules(r) ==
    LET intent == st[r]["intent"]
        missing == st[r]["missing_fields"]
    IN  /\ intent \in {"budget_question", "forecasting"} =>
              (missing = <<>> <=> (Income(r) > 0 /\ HasGoals(r)))
        /\ intent \notin {"budget_question", "forecasting", "investment_question"} =>
              missing = <<>>
        /\ st[r]["needs_clarification"] <=> (missing # <<>>)

\* C11 as stated (missing-field rules): for investment_question the planner
\* reports no missing field exactly when the message states a horizon; for
\* budget_question and forecasting exactly when the income is positive and
\* there is a goal; for every other intent always; and needs_clarification is
\* set exactly when a field is missing.
C11_HorizonAloneForInvestment ==
    \A r \in Runs :
        Planned(r) =>
            /\ st[r]["intent"] = "investment_question" =>
                  (st[r]["missing_fields"] = <<>> <=> StatesHorizon(r))
            /\ OtherIntentRules(r)

\* C11 as the planner computes it: an investment question needs a goal as
\* well as a stated horizon; the rules of the other intents are as stated.
C11_MissingFieldRules ==
    \A r \in Runs :
        Planned(r) =>
            /\ st[r]["intent"] = "investment_question" =>
                  (st[r]["missing_fields"] = <<>> <=> (StatesHorizon(r) /\ HasGoals(r)))
            /\ OtherIntentRules(r)

C11_Witness ==
    \E r \in Runs :
        /\ pc[r] = "done"
        /\ st[r]["intent"] = "investment_question"
        /\ StatesHorizon(r)
        /\ ~HasGoals(r)
        /\ st[r]["missing_fields"] = <<"goal">>
        /\ st[r]["needs_clarification"]

\* ------------------------------------------------------------------ properties of the clarification response

\* C12 (clarification response): the response of a run that short-circuits to
\* clarification is the fixed preamble followed by one question per missing
\* field, in the order of missing_fields, and nothing else: no synthesized
\* text and no review note, also when needs_human_review is set.
C12_ClarificationResponse ==
    \A r \in Runs :
        (pc[r] = "done" /\ Clarifying(r)) =>
            LET missing == st[r]["missing_fields"]
                response == st[r]["response"]
            IN  /\ Len(response) = 1 + Len(missing)
                /\ response[1] = <<"before_i_proceed">>
                /\ \A i \in 1..Len(missing) : response[i + 1] = <<"question", missing[i]>>
                /\ "synthesized_response" \notin DOMAIN st[r]
                /\ "review_note" \notin DOMAIN st[r]

C12_Witness ==
    \E r \in Runs :
        /\ pc[r] = "done"
        /\ Clarifying(r)
        /\ st[r]["needs_human_review"]
        /\ st[r]["missing_fields"] = <<"goal", "investment_horizon">>
        /\ st[r]["response"] = << <<"before_i_proceed">>, <<"question", "goal">>,
                                  <<"question", "investment_horizon">> >>

\* ------------------------------------------------------------------ properties of a turn without history

NoHistory(r) == FinanceOf(st[r]["user_id"]) = FinEmpty

\* C14 (empty history): for a user with no transactions the snapshot the run
\* reads has transaction_count 0, total_debit 0, total_credit 0, net_cashflow 0
\* and no top category, and the run, once it has ended, has a non-empty
\* response, for every intent and whatever the synthesizer's model call
\* returned or whether it failed.
C14_EmptyHistoryAnswers ==
    \A r \in Runs :
        NoHistory(r) =>
            /\ "financial_snapshot" \in DOMAIN st[r] =>
                  LET snapshot == st[r]["financial_snapshot"]
                  IN  /\ snapshot.transaction_count = 0
                      /\ snapshot.total_debit = 0
                      /\ snapshot.total_credit = 0
                      /\ snapshot.net_cashflow = 0
                      /\ snapshot.top_categories = <<>>
            /\ pc[r] = "done" => st[r]["response"] # <<>>

\* ------------------------------------------------------------------ properties of the net cashflow rule

\* a line that speaks of net cash flow, in either spelling
SaysNet(line) == MentionsNet(line) \/ line = LlmLine("net_cash_flow")

AsksCashFlow(r) == finance_query_focus(st[r]["message"]).explicit_cashflow_request

\* C15 (net-cash-flow suppression): the synthesized text of a run, from the
\* model or from the fallback, has a line about net cash flow only when the
\* message asked for cash flow.
C15_NetOnlyOnRequest ==
    \A r \in Runs :
        ("synthesized_response" \in DOMAIN st[r] /\ ~AsksCashFlow(r)) =>
            \A i \in 1..Len(st[r]["synthesized_response"]) :
                ~SaysNet(st[r]["synthesized_response"][i])

\* ------------------------------------------------------------------ tools.py: the read tools over the stored transactions
\* Times are whole days and amounts whole rupees.  A stored transaction has the
\* fields the tools read; backend.py stores every transaction with a datetime
\* date, which the caller may set to any day, a future one included.

Iso(at) == [wellformed |-> TRUE, at |-> at]

Malformed == [wellformed |-> FALSE, at |-> 0]

\* a datetime or a string fromisoformat parses is returned as it is; anything
\* else becomes the clock's reading
_as_datetime(value, utcnow) == IF value.wellformed THEN value.at ELSE utcnow

StoredTx(at, type, category, amount) ==
    [date |-> Iso(at), transaction_type |-> type, category |-> category, amount |-> amount]

Debits(items) == SelectSeq(items, LAMBDA d : d.transaction_type = "debit")

\* the categories dict: one entry per category, in order of first appearance
RECURSIVE CategoryTotals(_)
CategoryTotals(items) ==
    IF items = <<>> THEN <<>>
    ELSE LET rest == CategoryTotals(SubSeq(items, 1, Len(items) - 1))
             last == items[Len(items)]
         IN  IF \E i \in 1..Len(rest) : rest[i].name = last.category
             THEN [i \in 1..Len(rest) |->
                     IF rest[i].name = last.category
                     THEN [name |-> rest[i].name, amount |-> rest[i].amount + last.amount]
                     ELSE rest[i]]
             ELSE Append(rest, [name |-> last.category, amount |-> last.amount])

\* sorted(..., key=amount, reverse=True): stable, largest amount first
RECURSIVE InsertByAmount(_, _)
InsertByAmount(x, sorted) ==
    IF sorted = <<>> THEN <<x>>
    ELSE IF Head(sorted).amount > x.amount
         THEN <<Head(sorted)>> \o InsertByAmount(x, Tail(sorted))
         ELSE <<x>> \o sorted

RECURSIVE SortByAmount(_)
SortByAmount(items) ==
    IF items = <<>> THEN <<>> ELSE InsertByAmount(Head(items), SortByAmount(Tail(items)))

\* sort(key=_dt, reverse=True): stable, latest date first
RECURSIVE InsertByDate(_, _, _)
InsertByDate(x, sorted, utcnow) ==
    IF sorted = <<>> THEN <<x>>
    ELSE IF _as_datetime(Head(sorted).date, utcnow) > _as_datetime(x.date, utcnow)
         THEN <<Head(sorted)>> \o InsertByDate(x, Tail(sorted), utcnow)
         ELSE <<x>> \o sorted

RECURSIVE SortByDate(_, _)
SortByDate(items, utcnow) ==
    IF items = <<>> THEN <<>>
    ELSE InsertByDate(Head(items), SortByDate(Tail(items), utcnow), utcnow)

\* financial_snapshot over the documents find() returned
financial_snapshot_docs(docs, utcnow, days) ==
    LET cutoff == utcnow - days
        recent == SelectSeq(docs, LAMBDA d : _as_datetime(d.date, utcnow) >= cutoff)
        debit == SumAmounts(recent, "debit")
        credit == SumAmounts(recent, "credit")
    IN  [window_days |-> days,
         transaction_count |-> Len(recent),
         total_debit |-> debit,
         total_credit |-> credit,
         net_cashflow |-> credit - debit,
         top_categories |-> Take(SortByAmount(CategoryTotals(Debits(recent))), 5)]

\* round(x, 1) of x = num / den percent, in tenths of a percent: to the
\* nearest tenth, a tie to the even one
RoundHalfEven(num, den) ==
    LET q == num \div den
        r == num % den
    IN  IF 2 * r < den THEN q
        ELSE IF 2 * r > den THEN q + 1
        ELSE IF q % 2 = 0 THEN q ELSE q + 1

RECURSIVE SumOf(_)
SumOf(amounts) == IF amounts = <<>> THEN 0 ELSE Head(amounts) + SumOf(Tail(amounts))

RECURSIVE SumOfSquares(_)
SumOfSquares(amounts) ==
    IF amounts = <<>> THEN 0 ELSE Head(amounts) * Head(amounts) + SumOfSquares(Tail(amounts))

\* a threshold of mean plus one standard deviation
AtThresholdOneDeviation(amount, amounts) ==
    LET n == Len(amounts)
        gap == n * amount - SumOf(amounts)
    IN  gap >= 0 /\ gap * gap >= n * SumOfSquares(amounts) - SumOf(amounts) * SumOf(amounts)

\* amount >= mean(amounts) + 2 * pstdev(amounts), without the square root:
\* n * amount - sum >= 2 * sqrt(n * sum of squares - sum ^ 2)
AtThreshold(amount, amounts) ==
    LET n == Len(amounts)
        gap == n * amount - SumOf(amounts)
    IN  gap >= 0 /\ gap * gap >= 4 * (n * SumOfSquares(amounts) - SumOf(amounts) * SumOf(amounts))

\* analytics_report over the documents find() returned: the recent period, the
\* category shares and the anomalies (the previous period, the monthly trend
\* and the 7-day velocity are computed apart from these and left out)
analytics_report_docs(docs, utcnow, days) ==
    LET start_recent == utcnow - days
        recent == SelectSeq(docs, LAMBDA d :
                      /\ start_recent <= _as_datetime(d.date, utcnow)
                      /\ _as_datetime(d.date, utcnow) <= utcnow
                      /\ d.transaction_type = "debit")
        recent_total == SumAmounts(recent, "debit")
        top_categories == Take(SortByAmount(CategoryTotals(recent)), 6)
        amounts_recent == [i \in 1..Len(recent) |-> recent[i].amount]
        outliers == SortByAmount(SelectSeq(recent, LAMBDA x : AtThreshold(x.amount, amounts_recent)))
    IN  [window_days |-> days,
         recent_period |-> [count |-> Len(recent), total_spend |-> recent_total],
         top_categories |->
             [i \in 1..Len(top_categories) |->
                 [name |-> top_categories[i].name,
                  amount |-> top_categories[i].amount,
                  share_pct |-> IF recent_total > 0
                                THEN RoundHalfEven(top_categories[i].amount * 1000, recent_total)
                                ELSE 0]],
         anomalies |->
             IF Len(amounts_recent) >= 8
             THEN [i \in 1..Min2(5, Len(outliers)) |->
                     [amount |-> outliers[i].amount, category |-> outliers[i].category,
                      date |-> _as_datetime(outliers[i].date, utcnow)]]
             ELSE <<>>]

\* a faulty test that also takes the transactions dated at the end of the range
InRangeClosed(dt, start, end) == start <= dt /\ dt <= end

\* if start <= dt < end
InRange(dt, start, end) == start <= dt /\ dt < end

\* transaction_summary over the documents find() returned
transaction_summary_docs(docs, start_iso, end_iso, limit, utcnow) ==
    LET start == _as_datetime(start_iso, utcnow)
        end == _as_datetime(end_iso, utcnow)
        selected == SortByDate(SelectSeq(docs, LAMBDA d :
                                   InRange(_as_datetime(d.date, utcnow), start, end)),
                               utcnow)
        listed == Take(selected, Max2(5, Min2(limit, 20)))
    IN  [start_date |-> start, end_date_exclusive |-> end, days |-> Max2(1, end - start),
         transaction_count |-> Len(selected),
         total_debit |-> SumAmounts(selected, "debit"),
         total_credit |-> SumAmounts(selected, "credit"),
         net_cashflow |-> SumAmounts(selected, "credit") - SumAmounts(selected, "debit"),
         top_debit_categories |-> Take(SortByAmount(CategoryTotals(Debits(selected))), 6),
         transactions |->
             [i \in 1..Len(listed) |->
                 [date |-> _as_datetime(listed[i].date, utcnow), category |-> listed[i].category,
                  transaction_type |-> listed[i].transaction_type, amount |-> listed[i].amount]]]

\* ------------------------------------------------------------------ tools.py: the dates of extract_time_range
\* A datetime is a calendar day and an hour; the phrases whose range is cut at
\* midnight or counted in days from now are modelled ("this week", "last N
\* days" and explicit date tokens are not, and no input below contains them).

IsLeap(year) == year % 4 = 0 /\ (year % 100 # 0 \/ year % 400 = 0)

DaysIn(year, month) ==
    IF month = 2 THEN (IF IsLeap(year) THEN 29 ELSE 28)
    ELSE IF month \in {4, 6, 9, 11} THEN 30 ELSE 31

\* datetime(year, month, day)
Midnight(year, month, day) == [year |-> year, month |-> month, day |-> day, hour |-> 0]

\* a faulty step back that stays in the same year
PrevDayInYear(dt) ==
    IF dt.day > 1 THEN [dt EXCEPT !.day = dt.day - 1]
    ELSE IF dt.month > 1
    THEN [dt EXCEPT !.month = dt.month - 1, !.day = DaysIn(dt.year, dt.month - 1)]
    ELSE [dt EXCEPT !.month = 12, !.day = 31]

\* dt - timedelta(days=1)
PrevDay(dt) ==
    IF dt.day > 1 THEN [dt EXCEPT !.day = dt.day - 1]
    ELSE IF dt.month > 1
    THEN [dt EXCEPT !.month = dt.month - 1, !.day = DaysIn(dt.year, dt.month - 1)]
    ELSE [dt EXCEPT !.year = dt.year - 1, !.month = 12, !.day = 31]

\* dt + timedelta(days=1)
NextDay(dt) ==
    IF dt.day < DaysIn(dt.year, dt.month) THEN [dt EXCEPT !.day = dt.day + 1]
    ELSE IF dt.month < 12 THEN [dt EXCEPT !.month = dt.month + 1, !.day = 1]
    ELSE [dt EXCEPT !.year = dt.year + 1, !.month = 1, !.day = 1]

\* dt - timedelta(days=n), a month at a time
RECURSIVE MinusDays(_, _)
MinusDays(dt, n) ==
    IF n < dt.day THEN [dt EXCEPT !.day = dt.day - n]
    ELSE MinusDays(PrevDay([dt EXCEPT !.day = 1]), n - dt.day)

\* extract_time_range with the clock reading now: the flag and the label as
\* extract_time_range gives them, and the start and end the phrase stands for
extract_time_range_at(message, now_dt) ==
    LET phrase == extract_time_range(message)
        today == Midnight(now_dt.year, now_dt.month, now_dt.day)
        current_month_start == Midnight(now_dt.year, now_dt.month, 1)
        prev_month_anchor == PrevDay(current_month_start)
        range ==
            IF phrase.label = "today" THEN <<today, NextDay(today)>>
            ELSE IF phrase.label = "yesterday" THEN <<PrevDay(today), today>>
            ELSE IF phrase.label = "last_week" THEN <<MinusDays(now_dt, 7), now_dt>>
            ELSE IF phrase.label = "last_2_weeks" THEN <<MinusDays(now_dt, 14), now_dt>>
            ELSE IF phrase.label = "this_month" THEN <<current_month_start, now_dt>>
            ELSE IF phrase.label = "last_month"
            THEN <<Midnight(prev_month_anchor.year, prev_month_anchor.month, 1), current_month_start>>
            ELSE <<MinusDays(now_dt, 45), now_dt>>
    IN  [explicit |-> phrase.explicit, label |-> phrase.label,
         start |-> range[1], end |-> range[2]]

\* ------------------------------------------------------------------ the read tools called on a store
\* A behaviour posts up to MaxPosts transactions to a store and then calls one
\* read tool on it; tcall keeps the arguments of the call and what it returned.

\* datetime.utcnow() at the call, in days
Today == 100

MaxPosts == 2

\* the transactions a client may post
PostedTx ==
    { StoredTx(Today - 1, "debit", "food", 20),
      StoredTx(Today - 1, "debit", "travel", 20),
      StoredTx(Today - 1, "debit", "rent", 80),
      StoredTx(Today, "debit", "food", 20),
      StoredTx(Today + 1, "debit", "food", 20),
      StoredTx(Today - 50, "debit", "food", 20),
      StoredTx(Today - 1, "credit", "salary", 500),
      StoredTx(Today - 45, "credit", "salary", 500) }

\* seven debits of the last days, in three categories
SevenDebits ==
    << StoredTx(Today - 3, "debit", "food", 20), StoredTx(Today - 2, "debit", "travel", 20),
       StoredTx(Today - 2, "debit", "food", 20), StoredTx(Today - 1, "debit", "rent", 20),
       StoredTx(Today - 5, "debit", "travel", 20), StoredTx(Today - 4, "debit", "food", 20),
       StoredTx(Today - 1, "debit", "travel", 20) >>

\* ten debits of 20 inside the seven days before Today and five outside
WeekStore ==
    << StoredTx(Today - 7, "debit", "food", 20), StoredTx(Today - 8, "debit", "food", 20),
       StoredTx(Today - 1, "debit", "food", 20), StoredTx(Today - 6, "debit", "travel", 20),
       StoredTx(Today, "debit", "food", 20), StoredTx(Today - 5, "debit", "food", 20),
       StoredTx(Today - 2, "debit", "travel", 20), StoredTx(Today - 30, "debit", "rent", 20),
       StoredTx(Today - 4, "debit", "food", 20), StoredTx(Today - 3, "debit", "food", 20),
       StoredTx(Today - 1, "debit", "travel", 20), StoredTx(Today + 1, "debit", "food", 20),
       StoredTx(Today - 2, "debit", "food", 20), StoredTx(Today - 60, "debit", "food", 20),
       StoredTx(Today - 3, "debit", "rent", 20) >>

InitialStores == {<<>>, SevenDebits, WeekStore}

SnapshotDays == {7, 45}

RangeStarts == {Iso(Today - 7), Malformed}

RangeEnds == {Iso(Today), Malformed}

Limits == {1, 7, 25}

\* ------------------------------------------------------------------ tools.py: the date tokens of extract_time_range
\* A date token is a piece of the text the token pattern matches: "2024-03-10"
\* (iso: year a, month b, day c), "5/4/2024" (slash: a/b/c with a four-digit
\* year c) or "mar 5" (month_day: month a, day b, no year).

DateToken(form, a, b, c) == [form |-> form, a |-> a, b |-> b, c |-> c]

\* datetime(year, month, day) exists
ValidDate(year, month, day) == month \in 1..12 /\ day \in 1..DaysIn(year, month)

\* _try_parse_date_token: <<the parsed datetime>>, or <<>> for None.  The
\* formats are tried in order: %Y-%m-%d takes an iso token; %d/%m/%Y and then
\* %m/%d/%Y take a slash token; "%b %d" takes a month_day token, which strptime
\* builds in the year 1900 before replace(year=now.year).
_try_parse_date_token(token, now_dt) ==
    IF token.form = "iso"
    THEN IF ValidDate(token.a, token.b, token.c)
         THEN <<Midnight(token.a, token.b, token.c)>> ELSE <<>>
    ELSE IF token.form = "slash"
    THEN IF ValidDate(token.c, token.b, token.a) THEN <<Midnight(token.c, token.b, token.a)>>
         ELSE IF ValidDate(token.c, token.a, token.b) THEN <<Midnight(token.c, token.a, token.b)>>
         ELSE <<>>
    ELSE IF ValidDate(1900, token.a, token.b)
         THEN <<Midnight(now_dt.year, token.a, token.b)>> ELSE <<>>

\* datetime comparison
Before(d1, d2) ==
    \/ d1.year < d2.year
    \/ d1.year = d2.year /\ d1.month < d2.month
    \/ d1.year = d2.year /\ d1.month = d2.month /\ d1.day < d2.day
    \/ d1.year = d2.year /\ d1.month = d2.month /\ d1.day = d2.day /\ d1.hour < d2.hour

\* parsed_dates.sort()
RECURSIVE InsertDate(_, _)
InsertDate(x, sorted) ==
    IF sorted = <<>> THEN <<x>>
    ELSE IF Before(Head(sorted), x) THEN <<Head(sorted)>> \o InsertDate(x, Tail(sorted))
    ELSE <<x>> \o sorted

RECURSIVE SortDates(_)
SortDates(dates) ==
    IF dates = <<>> THEN <<>> ELSE InsertDate(Head(dates), SortDates(Tail(dates)))

\* the dates parsed from date_tokens[:3], in the order of the tokens
RECURSIVE ParsedDates(_, _)
ParsedDates(tokens, now_dt) ==
    IF tokens = <<>> THEN <<>>
    ELSE _try_parse_date_token(Head(tokens), now_dt) \o ParsedDates(Tail(tokens), now_dt)

\* extract_time_range on a text with the phrases of message and the date tokens
\* of tokens: two parsed dates or one override the range of the phrase
extract_time_range_dates(message, tokens, now_dt) ==
    LET parsed_dates == SortDates(ParsedDates(Take(tokens, 3), now_dt))
    IN  IF Len(parsed_dates) >= 2
        THEN [explicit |-> TRUE, label |-> "custom_date_range",
              start |-> Midnight(parsed_dates[1].year, parsed_dates[1].month, parsed_dates[1].day),
              end |-> NextDay(Midnight(parsed_dates[2].year, parsed_dates[2].month,
                                       parsed_dates[2].day))]
        ELSE IF Len(parsed_dates) = 1
        THEN [explicit |-> TRUE, label |-> "single_date",
              start |-> Midnight(parsed_dates[1].year, parsed_dates[1].month, parsed_dates[1].day),
              end |-> NextDay(Midnight(parsed_dates[1].year, parsed_dates[1].month,
                                       parsed_dates[1].day))]
        ELSE extract_time_range_at(message, now_dt)

MaxTokens == 2

DateTokens ==
    { DateToken("iso", 2024, 3, 10), DateToken("iso", 2023, 12, 31), DateToken("iso", 2024, 2, 30),
      DateToken("slash", 5, 4, 2024), DateToken("slash", 4, 25, 2024),
      DateToken("month_day", 3, 5, 0), DateToken("month_day", 2, 29, 0) }

TokenLists == UNION { [1..n -> DateTokens] : n \in 0..MaxTokens }

MsgLastMonth == {"last month"}

RangeMessages ==
    {{}, {"today"}, {"yesterday"}, {"last week"}, {"this month"}, MsgLastMonth,
     {"previous month"}, {"today", "last month"}}

Clocks ==
    { [year |-> y, month |-> m, day |-> d, hour |-> h] :
          y \in {2023, 2024}, m \in 1..12, d \in {1, 15, 28}, h \in {0, 13} }
    \cup { [year |-> y, month |-> m, day |-> DaysIn(y, m), hour |-> 13] :
               y \in {2023, 2024}, m \in 1..12 }

InitTools ==
    /\ pc = [r \in Runs |-> "off"]
    /\ st = [r \in Runs |-> IdleState]
    /\ steps = [r \in Runs |-> <<>>]
    /\ idx = [r \in Runs |-> 1]
    /\ err = [r \in Runs |-> ""]
    /\ synth = [r \in Runs |-> "none"]
    /\ mem_writes = [r \in Runs |-> 0]
    /\ memories = <<>>
    /\ messages = <<>>
    /\ finance = [u \in Users |-> FinEmpty]
    /\ scenario = PairScenario
    /\ ChatOff
    /\ txs \in InitialStores
    /\ tcall = NoCall
    /\ tleft = MaxPosts

\* POST /transactions: insert_one on db.transactions
PostTx ==
    /\ tcall = NoCall
    /\ tleft > 0
    /\ \E doc \in PostedTx : txs' = Append(txs, doc)
    /\ tleft' = tleft - 1
    /\ UNCHANGED <<tcall, ovars, dbvars, scenario, chvars>>

CallSnapshot ==
    /\ tcall = NoCall
    /\ \E days \in SnapshotDays :
          tcall' = [op |-> "financial_snapshot", utcnow |-> Today, days |-> days,
                    result |-> financial_snapshot_docs(txs, Today, days)]
    /\ UNCHANGED <<txs, tleft, ovars, dbvars, scenario, chvars>>

CallAnalytics ==
    /\ tcall = NoCall
    /\ tcall' = [op |-> "analytics_report", utcnow |-> Today, days |-> 90,
                 result |-> analytics_report_docs(txs, Today, 90)]
    /\ UNCHANGED <<txs, tleft, ovars, dbvars, scenario, chvars>>

CallSummary ==
    /\ tcall = NoCall
    /\ \E start_iso \in RangeStarts, end_iso \in RangeEnds, limit \in Limits :
          tcall' = [op |-> "transaction_summary", utcnow |-> Today,
                    start_iso |-> start_iso, end_iso |-> end_iso, limit |-> limit,
                    result |-> transaction_summary_docs(txs, start_iso, end_iso, limit, Today)]
    /\ UNCHANGED <<txs, tleft, ovars, dbvars, scenario, chvars>>

CallTimeRange ==
    /\ tcall = NoCall
    /\ \E message \in RangeMessages, tokens \in TokenLists, now_dt \in Clocks :
          tcall' = [op |-> "extract_time_range", message |-> message, tokens |-> tokens,
                    now_dt |-> now_dt,
                    result |-> extract_time_range_dates(message, tokens, now_dt)]
    /\ UNCHANGED <<txs, tleft, ovars, dbvars, scenario, chvars>>

NextTools ==
    \/ PostTx
    \/ CallSnapshot
    \/ CallAnalytics
    \/ CallSummary

SpecTools == InitTools /\ [][NextTools]_vars

\* extract_time_range alone, on any of the messages at any of the clock readings
InitRange ==
    /\ InitTools
    /\ txs = <<>>

NextRange == CallTimeRange

SpecRange == InitRange /\ [][NextRange]_vars

\* ------------------------------------------------------------------ properties of the read tools

Called(op) == tcall.op = op

\* the stored transactions dated from `from` to `to`, both included
DatedWithin(from, to) == SelectSeq(txs, LAMBDA d : from <= d.date.at /\ d.date.at <= to)

\* C16 (snapshot conservation): financial_snapshot returns as total_debit the
\* sum of the debit amounts dated in [now - windowDays, now], as total_credit
\* the same sum over the credits, and as net_cashflow their difference.
C16_SnapshotConservation ==
    Called("financial_snapshot") =>
        LET window == DatedWithin(tcall.utcnow - tcall.days, tcall.utcnow)
        IN  /\ tcall.result.total_debit = SumAmounts(window, "debit")
            /\ tcall.result.total_credit = SumAmounts(window, "credit")
            /\ tcall.result.net_cashflow = tcall.result.total_credit - tcall.result.total_debit

\* the debits analytics_report samples: dated in the window that ends now
RecentDebits == Debits(DatedWithin(tcall.utcnow - tcall.days, tcall.utcnow))

\* amount is at or above the mean of the sample plus twice its population
\* standard deviation (n * amount - sum >= 2 * n * deviation, squared)
Qualifies(amount, sample) ==
    LET n == Len(sample)
        sum == SumAmounts(sample, "debit")
        squares == SumOfSquares([i \in 1..n |-> sample[i].amount])
    IN  /\ n * amount >= sum
        /\ (n * amount - sum) * (n * amount - sum) >= 4 * (n * squares - sum * sum)

\* C17 (anomaly gating): analytics_report returns no anomaly when the recent
\* debit sample has fewer than 8 transactions; with 8 or more every anomaly is
\* a transaction of the sample at or above mean + 2 population standard
\* deviations, the list is sorted by amount descending, has at most 5 entries
\* and holds the largest qualifying transactions.
C17_AnomalyGating ==
    Called("analytics_report") =>
        LET sample == RecentDebits
            qualifying == SelectSeq(sample, LAMBDA d : Qualifies(d.amount, sample))
            anomalies == tcall.result.anomalies
        IN  /\ Len(sample) < 8 => anomalies = <<>>
            /\ Len(sample) >= 8 =>
                  /\ Len(anomalies) = Min2(5, Len(qualifying))
                  /\ \A i \in 1..Len(anomalies) :
                        /\ \E k \in 1..Len(qualifying) :
                              /\ qualifying[k].amount = anomalies[i].amount
                              /\ qualifying[k].category = anomalies[i].category
                              /\ qualifying[k].date.at = anomalies[i].date
                        /\ Qualifies(anomalies[i].amount, sample)
                        /\ i > 1 => anomalies[i - 1].amount >= anomalies[i].amount
                        /\ Cardinality({k \in 1..Len(qualifying) :
                                           qualifying[k].amount > anomalies[i].amount}) < i

\* nine recent debits of which one is far above the rest, and it alone is listed
C17_Witness ==
    /\ Called("analytics_report")
    /\ Len(RecentDebits) = 9
    /\ Len(tcall.result.anomalies) = 1
    /\ tcall.result.anomalies[1].amount = 80

\* seven recent debits and one more far above them give no anomaly yet
C17_WitnessGated ==
    /\ Called("analytics_report")
    /\ Len(RecentDebits) = 7
    /\ tcall.result.anomalies = <<>>

\* C18 (category shares): the share_pct values of the top categories of an
\* analytics_report, at most 6 of them, sum to at most 100 (shares are in
\* tenths of a percent).
C18_SharesWithinWhole ==
    Called("analytics_report") =>
        LET top == tcall.result.top_categories
        IN  /\ Len(top) <= 6
            /\ SumOf([i \in 1..Len(top) |-> top[i].share_pct]) <= 1000

\* C13 (invalid input is rejected): no summary is computed for a time range
\* whose start or end is malformed; such a call is refused, not answered for
\* another range.
C13_MalformedRangeRejected ==
    Called("transaction_summary") => (tcall.start_iso.wellformed /\ tcall.end_iso.wellformed)

\* the stored transactions with start <= date < end
InsideRange == SelectSeq(txs, LAMBDA d : tcall.start_iso.at <= d.date.at /\ d.date.at < tcall.end_iso.at)

\* C19 (half-open summary): for a well-formed range transaction_summary counts
\* a transaction exactly when start <= date < end; transaction_count,
\* total_debit and total_credit cover those transactions and no other, and the
\* listed transactions are the most recent of them, latest first, at most
\* max(5, min(limit, 20)).
C19_HalfOpenSummary ==
    (Called("transaction_summary") /\ tcall.start_iso.wellformed /\ tcall.end_iso.wellformed) =>
        LET inside == InsideRange
            listed == tcall.result.transactions
        IN  /\ tcall.result.transaction_count = Len(inside)
            /\ tcall.result.total_debit = SumAmounts(inside, "debit")
            /\ tcall.result.total_credit = SumAmounts(inside, "credit")
            /\ Len(listed) = Min2(Len(inside), Max2(5, Min2(tcall.limit, 20)))
            /\ \A i \in 1..Len(listed) :
                  /\ \E k \in 1..Len(inside) :
                        /\ inside[k].date.at = listed[i].date
                        /\ inside[k].amount = listed[i].amount
                        /\ inside[k].category = listed[i].category
                        /\ inside[k].transaction_type = listed[i].transaction_type
                  /\ i > 1 => listed[i - 1].date >= listed[i].date
                  /\ Cardinality({k \in 1..Len(inside) : inside[k].date.at > listed[i].date}) < i

\* ten debits of 20 inside the range and five outside: count 10, debit 200,
\* credit 0, and with limit 7 the seven most recent are listed
C19_Witness ==
    /\ Called("transaction_summary")
    /\ txs = WeekStore
    /\ tcall.start_iso = Iso(Today - 7)
    /\ tcall.end_iso = Iso(Today)
    /\ tcall.limit = 7
    /\ tcall.result.transaction_count = 10
    /\ tcall.result.total_debit = 200
    /\ tcall.result.total_credit = 0
    /\ Len(tcall.result.transactions) = 7
    /\ tcall.result.transactions[1].date = Today - 1

\* C20 (last month): for every current date extract_time_range("last month"),
\* for a text that holds no date token,
\* returns start = 00:00 on the first day of the previous calendar month,
\* end = 00:00 on the first day of the current month, and explicit = true.
C20_LastMonthRange ==
    (Called("extract_time_range") /\ tcall.message = MsgLastMonth /\ tcall.tokens = <<>>) =>
        LET now_dt == tcall.now_dt
        IN  /\ tcall.result.start =
                  IF now_dt.month = 1
                  THEN [year |-> now_dt.year - 1, month |-> 12, day |-> 1, hour |-> 0]
                  ELSE [year |-> now_dt.year, month |-> now_dt.month - 1, day |-> 1, hour |-> 0]
            /\ tcall.result.end =
                  [year |-> now_dt.year, month |-> now_dt.month, day |-> 1, hour |-> 0]
            /\ tcall.result.explicit

\* asked on a day of January, the range is December of the year before
C20_Witness ==
    /\ Called("extract_time_range")
    /\ tcall.message = MsgLastMonth
    /\ tcall.tokens = <<>>
    /\ tcall.now_dt = [year |-> 2024, month |-> 1, day |-> 15, hour |-> 13]
    /\ tcall.result.start = [year |-> 2023, month |-> 12, day |-> 1, hour |-> 0]
    /\ tcall.result.end = [year |-> 2024, month |-> 1, day |-> 1, hour |-> 0]

\* ------------------------------------------------------------------ properties of the date rules

\* the calendar day a token names, <<>> when it names none: an iso token its
\* year, month and day; a slash token day/month/year when that is a day and
\* month/day/year otherwise; a month_day token that day of the current year
Denotes(token, now_dt) ==
    LET day == IF token.form = "iso" THEN <<token.a, token.b, token.c>>
               ELSE IF token.form = "slash"
               THEN (IF token.b \in 1..12 /\ token.a \in 1..DaysIn(token.c, token.b)
                     THEN <<token.c, token.b, token.a>> ELSE <<token.c, token.a, token.b>>)
               ELSE <<now_dt.year, token.a, token.b>>
    IN  IF day[2] \in 1..12 /\ day[3] \in 1..DaysIn(day[1], day[2])
        THEN << [year |-> day[1], month |-> day[2], day |-> day[3], hour |-> 0] >>
        ELSE <<>>

\* the explicit dates of the text of the call, in the order of the tokens
RECURSIVE DatesOf(_, _)
DatesOf(tokens, now_dt) ==
    IF tokens = <<>> THEN <<>>
    ELSE Denotes(Head(tokens), now_dt) \o DatesOf(Tail(tokens), now_dt)

\* C21 (date rules): a text with two explicit dates gives start = 00:00 of the
\* earlier one and end = 00:00 of the day after the later one; a text with
\* exactly one explicit date gives that single day; a text with no phrase and
\* no date gives [now - 45 days, now] with explicit = false; and in each of
\* these cases start is before end.
C21_DateRules ==
    Called("extract_time_range") =>
        LET dates == DatesOf(tcall.tokens, tcall.now_dt)
            result == tcall.result
        IN  /\ Len(dates) = 2 =>
                  LET first == IF Before(dates[2], dates[1]) THEN dates[2] ELSE dates[1]
                      last == IF Before(dates[2], dates[1]) THEN dates[1] ELSE dates[2]
                  IN  /\ result.start = first
                      /\ result.end = NextDay(last)
                      /\ Before(result.start, result.end)
            /\ Len(dates) = 1 =>
                  /\ result.start = dates[1]
                  /\ result.end = NextDay(dates[1])
                  /\ Before(result.start, result.end)
            /\ (dates = <<>> /\ tcall.message = {}) =>
                  /\ result.start = MinusDays(tcall.now_dt, 45)
                  /\ result.end = tcall.now_dt
                  /\ ~result.explicit
                  /\ Before(result.start, result.end)


\* ------------------------------------------------------------------ C22

\* the intent model never answered in a way the agent could use
ModelCallsAllFail ==
    \A c \in scenario.intent_completions : c.kind # "json"

\* C22 (intent classification is total): the run of the intent agent never
\* raises, the intent it leaves in the state is one of the eight intents,
\* and when every model call fails or answers something unparseable the
\* intent is the one of the first matching keyword rule, general when no
\* rule matches.
C22_IntentTotal ==
    \A r \in Runs :
        /\ err[r] # "overflow:extract_time_range"
        /\ "intent" \in DOMAIN st[r] =>
              /\ st[r]["intent"] \in Intents
              /\ ModelCallsAllFail => st[r]["intent"] = KeywordIntent(st[r]["message"])


\* ------------------------------------------------------------------ C23

\* the key each plan stage assigns (state["..."] = ... in its run)
ReportKeyOf(name) ==
    CASE name = "ingestion" -> "ingestion_report"
      [] name = "categorization" -> "categorization_report"
      [] name = "transaction_query" -> "transaction_report"
      [] name = "expense" -> "expense_report"
      [] name = "budget" -> "budget_report"
      [] name = "forecasting" -> "forecast_report"
      [] name = "behaviour" -> "behaviour_report"
      [] name = "sentiment" -> "sentiment_report"
      [] name = "investment" -> "investment_report"
      [] name = "learning" -> "learning_report"
      [] name = "financial_health" -> "financial_health_report"
      [] name = "synthesizer" -> "synthesized_response"

\* the stage of run r returned in this step
StageReturned(r) ==
    /\ InLoop(r)
    /\ CurrentStep(r) \in AgentNames
    /\ idx'[r] = idx[r] + 1

\* C23 (stage frame condition): a plan stage that runs changes only its own
\* report key and agent_trace; every other key of the state keeps its
\* value, no key present before the stage is absent after it, and its
\* report key is present after it.
C23_StageFrame ==
    [][\A r \in Runs :
          StageReturned(r) =>
              /\ ReportKeyOf(CurrentStep(r)) \in DOMAIN st'[r]
              /\ \A k \in DOMAIN st[r] :
                    /\ k \in DOMAIN st'[r]
                    /\ k \notin {ReportKeyOf(CurrentStep(r)), "agent_trace"}
                          => st'[r][k] = st[r][k]]_vars

\* a run in which every one of the twelve stages has returned
C23_Witness ==
    \E r \in Runs :
        /\ pc[r] = "review"
        /\ \A name \in AgentNames : ReportKeyOf(name) \in DOMAIN st[r]


\* ------------------------------------------------------------------ C24

\* the discipline score the behaviour stage reported, 50.0 when the plan has
\* no behaviour stage
ReportedDiscipline(state) ==
    Get(Get(state, "behaviour_report", <<>>), "discipline_score", 500)

OverspendingDetected(state) ==
    Get(Get(state, "budget_report", <<>>), "overspending_detected", FALSE)

HasHealthReport(r) == "financial_health_report" \in DOMAIN st[r]

\* C24 (financial health score): the report of the financial_health stage
\* has an overall_health_score between 0 and 100 that is the mean of its
\* savings, stability and risk sub-scores (to one decimal), its stability
\* sub-score is the discipline score minus 20 when overspending was
\* detected, clipped to 0..100, and its band is good from 70, watch from 45
\* and needs_attention below 45.
C24_HealthScore ==
    \A r \in Runs :
        HasHealthReport(r) =>
            LET report == st[r]["financial_health_report"]
                score == report.overall_health_score
            IN  /\ score \in 0..1000
                /\ score = RoundDiv3(report.savings_score + report.stability_score
                                     + report.risk_score)
                /\ report.stability_score =
                       Max2(0, Min2(1000, ReportedDiscipline(st[r])
                                          - (IF OverspendingDetected(st[r]) THEN 200 ELSE 0)))
                /\ report.health_band =
                       (IF score >= 700 THEN "good"
                        ELSE IF score >= 450 THEN "watch" ELSE "needs_attention")


\* ------------------------------------------------------------------ C25

Flagged(r) == Get(st[r], "needs_human_review", FALSE)

\* the trace the claim describes for a completed run on the execution path
ExecutionTrace(r) ==
    <<"intent_detection", "user_state", "planner">> \o st[r]["plan"]
    \o (IF Flagged(r) THEN <<"human_review">> ELSE <<>>)
    \o (IF st[r]["user_id"] # "" THEN <<"memory_update">> ELSE <<>>)
    \o <<"final_response">>

\* C25 (shape of the trace): a completed run that needed no clarification
\* has the trace intent_detection, user_state, planner, one entry per
\* planned stage in plan order, human_review exactly when
\* needs_human_review is set, memory_update exactly when the user id is
\* not empty, and final_response; on either path final_response is the
\* last entry of a completed run.
C25_TraceShape ==
    \A r \in Runs :
        pc[r] = "done" =>
            /\ ~Clarifying(r) => TraceNames(r) = ExecutionTrace(r)
            /\ Len(Trace(r)) > 0
            /\ TraceNames(r)[Len(Trace(r))] = "final_response"

\* completed runs on the execution path: one reviewed for a known user, one
\* without review for the empty user id
C25_Witness ==
    \E r \in Runs :
        /\ pc[r] = "done"
        /\ ~Clarifying(r)
        /\ Flagged(r)
        /\ st[r]["user_id"] # ""
        /\ "human_review" \in Range(TraceNames(r))

C25_WitnessPlain ==
    \E r \in Runs :
        /\ pc[r] = "done"
        /\ ~Clarifying(r)
        /\ ~Flagged(r)
        /\ st[r]["user_id"] = ""


\* ------------------------------------------------------------------ C26

\* the report keys each plan stage reads with state.get(...)
ReadsOf(name) ==
    CASE name = "behaviour" -> {"expense_report"}
      [] name = "investment" -> {"sentiment_report"}
      [] name = "financial_health" ->
             {"behaviour_report", "budget_report", "investment_report", "sentiment_report"}
      [] name = "synthesizer" ->
             {"sentiment_report", "expense_report", "budget_report", "forecast_report",
              "behaviour_report", "investment_report", "learning_report",
              "financial_health_report", "transaction_report"}
      [] OTHER -> {}

WellFormed(plan) ==
    /\ Len(plan) > 0
    /\ Range(plan) \subseteq AgentNames
    /\ \A i, j \in 1..Len(plan) : i # j => plan[i] # plan[j]
    /\ plan[Len(plan)] = "synthesizer"

ReadsBeforeWrites(plan) ==
    \A i, j \in 1..Len(plan) : i < j => ReportKeyOf(plan[j]) \notin ReadsOf(plan[i])

\* C26 (plan well-formedness and data dependencies): the plan the planner
\* leaves in the state holds only registered stage names, none twice, and
\* ends with synthesizer; no stage of it reads a report key that a later
\* stage of the same plan writes; and on the execution path
\* synthesized_response is set when the finalizer runs.
C26_PlanWellFormed ==
    \A r \in Runs :
        Planned(r) =>
            /\ WellFormed(st[r]["plan"])
            /\ ReadsBeforeWrites(st[r]["plan"])
            /\ (pc[r] \in {"final", "done"} /\ ~Clarifying(r))
                  => "synthesized_response" \in DOMAIN st[r]

\* a completed emotional_spending run, whose plan differs from the default
C26_Witness ==
    \E r \in Runs :
        /\ pc[r] = "done"
        /\ ~Clarifying(r)
        /\ Len(st[r]["plan"]) = 8
        /\ "financial_health_report" \in DOMAIN st[r]

C26_WitnessEducation ==
    \E r \in Runs : pc[r] = "done" /\ ~Clarifying(r) /\ Len(st[r]["plan"]) = 3

C26_WitnessDefault ==
    \E r \in Runs : pc[r] = "done" /\ ~Clarifying(r) /\ st[r]["plan"] = DefaultPlan


\* ------------------------------------------------------------------ C27

\* the validator of call c has returned
Validated(c) == cpc[c] \in {"insert_assistant", "update_session", "returned"}

GraphFlag(c, flag) == Get(call[c].gst, flag, FALSE)

\* C27 (validator postconditions): whatever the validator's model call
\* returns, and when it fails, the response the graph ends with holds the
\* disclaimer sentence when requires_professional_disclaimer is set, the
\* goal sentence when goal_change is set, and "sorry" when dissatisfied is
\* set.
C27_ValidatorPostconditions ==
    \A c \in Calls :
        Validated(c) =>
            LET response == Get(call[c].gst, "response", EmptyText)
            IN  /\ GraphFlag(c, "requires_professional_disclaimer")
                      => DisclaimerSentence \in response.has
                /\ GraphFlag(c, "goal_change") => GoalSentence \in response.has
                /\ GraphFlag(c, "dissatisfied") => "sorry" \in response.has

\* a validated turn with the three flags set
C27_Witness ==
    \E c \in Calls :
        /\ Validated(c)
        /\ GraphFlag(c, "requires_professional_disclaimer")
        /\ GraphFlag(c, "goal_change")
        /\ GraphFlag(c, "dissatisfied")
        /\ GoalSentence \in Get(call[c].gst, "response", EmptyText).has


\* ------------------------------------------------------------------ C28

\* no call of chat() is between its first and its last step
Quiescent == \A c \in Calls : cpc[c] \in {"new", "rejected", "returned", "raised"}

\* every user message of the dialogue is directly followed by an assistant message
UserTurnsAnswered(dialogue) ==
    \A i \in 1..Len(dialogue) :
        dialogue[i].role = "user" =>
            /\ i < Len(dialogue)
            /\ dialogue[i + 1].role = "assistant"

\* C28 (chat transcript bookkeeping): whenever no chat call is in progress,
\* after any sequence of calls including ones whose pipeline run raised,
\* the message_count of every session equals the number of messages
\* persisted for it and every persisted user message is followed by an
\* assistant message.
C28_TranscriptBookkeeping ==
    (Quiescent /\ \E c \in Calls : cpc[c] \in {"returned", "raised"}) =>
        \A i \in 1..Len(sessions) :
            /\ sessions[i].message_count = Len(SessionMessages(sessions[i].id))
            /\ UserTurnsAnswered(SessionMessages(sessions[i].id))


\* ------------------------------------------------------------------ C29

HasFocus(r) == "query_focus" \in DOMAIN st[r]

ExplicitRange(r) == st[r]["query_focus"].time_range.explicit

\* C29 (an explicit time range implies a transaction summary): when the
\* time range of the message is explicit, the focus list of the query
\* focus contains transaction_summary, whatever other tags the message
\* matches, and the report the transaction_query stage leaves is the one
\* of transaction_summary.
C29_ExplicitRangeSummary ==
    \A r \in Runs :
        (HasFocus(r) /\ ExplicitRange(r)) =>
            /\ "transaction_summary" \in Range(st[r]["query_focus"].focus)
            /\ "transaction_report" \in DOMAIN st[r] => st[r]["transaction_report"] # <<>>


\* ------------------------------------------------------------------ C30

\* call c has been given its session by start_or_reuse_session
HasSession(c) == call[c].sid # ""

\* two calls of one user, neither giving a session id, started within the
\* reuse window of each other
SameUserInWindow(c, d) ==
    /\ call[c].user_id = call[d].user_id
    /\ call[c].session_id = "" /\ call[d].session_id = ""
    /\ call[c].started - call[d].started <= ReuseWindow
    /\ call[d].started - call[c].started <= ReuseWindow

\* C30 (session reuse): the session a call works in belongs to its user and
\* is active, and any two calls of one user that give no session id and
\* fall within the reuse window end up in the same session, however their
\* steps interleave.
C30_SessionReuse ==
    \A c \in Calls :
        HasSession(c) =>
            /\ \E i \in 1..Len(sessions) :
                  /\ sessions[i].id = call[c].sid
                  /\ sessions[i].user_id = call[c].user_id
                  /\ sessions[i].status = "active"
            /\ \A d \in Calls \ {c} :
                  (HasSession(d) /\ SameUserInWindow(c, d)) => call[c].sid = call[d].sid

====
